---------------------------- MODULE Spec2Model ----------------------------
(***************************************************************************)
(* State-machine model of the RACV live-quote scraper.                     *)
(*                                                                         *)
(*   - rego mode   : scrapeRacvQuote, src/src/utils/uat-test.ts 616-1119   *)
(*   - manual mode : scrapeRacvQuote, src/src/utils/uat-test.ts 1201-1523  *)
(*   - getBrowser / closeBrowser, the module-level engine handle           *)
(*                                                                         *)
(* One call is a sequential flow of awaits; every await that the source    *)
(* does not guard with .catch() may reject, which transfers control to the *)
(* outermost catch block.  What the remote site shows (fields, headings,   *)
(* error banners, page text, backend responses) is the environment and is  *)
(* chosen nondeterministically at the step that reads it.                  *)
(***************************************************************************)
EXTENDS Integers, Sequences, FiniteSets, TLC

VARIABLES
    mode,          \* "rego" | "manual": which scrapeRacvQuote is being run
    pc,            \* position of the call in the flow
    browser,       \* module-level handle: 0 = null, otherwise an engine id
    engines,       \* engine id -> "live" | "dead"   (every engine ever launched)
    gb,            \* caller -> position inside getBrowser / closeBrowser
    page,          \* "none" | "open" | "closed" | "closeFailed"
    context,       \* "none" | "open" | "owned" | "closed" | "closeFailed"
    captured,      \* captured.vehicle: NoVehicle or a VehicleInfo
    net,           \* backend responses in flight (bodies not yet handled)
    attempt,       \* for-loop counter of the resolution loop (0 before it)
    wait,          \* for-loop counter of the polling loop
    found,         \* local of one attempt
    notFoundMsg,   \* local of one attempt
    cv,            \* const cv = captured.vehicle (line 752)
    vehicleDesc,   \* let vehicleDesc = ""
    quoteAttempt,  \* for-loop counter of the quote wait loop
    quoteLoaded,   \* let quoteLoaded = false
    thrown,        \* the error caught by the outermost catch ("" = none)
    ret,           \* the value of the return statement being executed
    result,        \* what the caller's await receives (NoResult before)
    h,             \* history of the call, read only by the properties
    shotFile,      \* the file at the fixed path of the final-stage snapshot
    sel,           \* the option-matching loop of one fallback dropdown step
    tool,          \* one tools/call of get_motor_quote (manual-mode tool)
    transports,    \* const transports: session id -> transport (server.ts 85)
    http           \* the HTTP server: transports created, requests, shutdown

flowVars == <<mode, pc, page, context, captured, net, attempt, wait, found,
              notFoundMsg, cv, vehicleDesc, quoteAttempt, quoteLoaded,
              thrown, ret, result, h>>
browserVars == <<browser, engines, gb, shotFile>>
appVars == <<sel, tool, transports, http>>
vars == <<flowVars, browserVars, appVars>>

-----------------------------------------------------------------------------
(* Bounds of the model *)

\* number of backend responses that may be in flight at once
MaxNet == 1
\* additional concurrent callers of getBrowser / closeBrowser (SpecBrowser)
NumCallers == 2
\* engines that may be launched over one run of SpecBrowser
MaxEngines == 3
\* tokens of the final page text that the flow specification enumerates
MaxFlowTokens == 2
\* tokens of the page texts that the extraction specification enumerates
MaxExtractTokens == 3

-----------------------------------------------------------------------------
(* JavaScript values of optional result fields *)

UndefNum == [k |-> "undefined", v |-> 0]
NaNNum   == [k |-> "NaN", v |-> 0]
Num(n)   == [k |-> "number", v |-> n]
\* a string value is the sequence of the parts it is assembled from
UndefStr == [k |-> "undefined", v |-> <<>>]
Str(s)   == [k |-> "string", v |-> s]
UndefArr == [k |-> "undefined", v |-> <<>>]
Arr(a)   == [k |-> "array", v |-> a]

\* the mutant of the truthiness test: any defined value passes
TruthyDefined(x) == x.k # "undefined"

\* JS truthiness of a number | undefined (used by `!annualPremium`, `a || b`)
Truthy(x) == x.k = "number" /\ x.v # 0

\* the mutant of the test: no string counts as empty
StrEmptyNever(ws) == FALSE

\* the empty string: no parts, or one empty part
StrEmpty(ws) == ws = <<>> \/ ws = <<"">>


-----------------------------------------------------------------------------
(* Strings are modelled as sequences: a formatted label is the sequence of  *)
(* its space-separated parts, an amount is the sequence of its characters.  *)

\* String.prototype.toUpperCase on the strings the model uses
Upper(s) ==
    CASE s = "Subaru" -> "SUBARU"
      [] s = "Forester" -> "FORESTER"
      [] s = "Wagon" -> "WAGON"
      [] OTHER -> s

RECURSIVE TrimLeft(_)
TrimLeft(ws) ==
    IF ws # <<>> /\ Head(ws) = "" THEN TrimLeft(Tail(ws)) ELSE ws

RECURSIVE TrimRight(_)
TrimRight(ws) ==
    IF ws # <<>> /\ ws[Len(ws)] = ""
    THEN TrimRight(SubSeq(ws, 1, Len(ws) - 1)) ELSE ws

\* String.prototype.trim on "a b c d" given as <<a, b, c, d>>: empty parts at
\* either end leave only blanks there, which trim removes
Trim(ws) == TrimRight(TrimLeft(ws))

\* a || b on strings
OrStr(a, b) == IF a # "" THEN a ELSE b

-----------------------------------------------------------------------------
(* Backend (Aura) response bodies and the vehicle record read from them *)

NoRawVehicle ==
    [present |-> FALSE, yearCreate |-> "", makeName |-> "", make |-> "",
     familyName |-> "", model |-> "", bodyStyleName |-> "", bodyStyle |-> "",
     variantName |-> ""]

RawVehicle(y, mn, m) ==
    [present |-> TRUE, yearCreate |-> y, makeName |-> mn, make |-> m,
     familyName |-> "Forester", model |-> "", bodyStyleName |-> "Wagon",
     bodyStyle |-> "", variantName |-> "XS"]

\* parses: JSON.parse(responseBody) succeeds;  state: actions[0].state;
\* ret: the innermost returnValue is "missing", "notstring", "badjson" (a string
\* that is no JSON) or "json";  vehicle: parsed.vehicles[0].vehicle
Body(parses, state, r, v) ==
    [parses |-> parses, state |-> state, ret |-> r, vehicle |-> v]

BodyGarbage  == Body(FALSE, "", "missing", NoRawVehicle)
BodyError    == Body(TRUE, "ERROR", "json", RawVehicle("2010", "Subaru", ""))
BodyNoReturn == Body(TRUE, "SUCCESS", "missing", NoRawVehicle)
BodyBadJson  == Body(TRUE, "SUCCESS", "badjson", NoRawVehicle)
BodyNoVeh    == Body(TRUE, "SUCCESS", "json", NoRawVehicle)
BodyNoMake   == Body(TRUE, "SUCCESS", "json", RawVehicle("2011", "", ""))
BodyNoYear   == Body(TRUE, "SUCCESS", "json", RawVehicle("", "Subaru", ""))
BodyGoodA    == Body(TRUE, "SUCCESS", "json", RawVehicle("2011", "Subaru", ""))
BodyGoodB    == Body(TRUE, "SUCCESS", "json", RawVehicle("2012", "", "SUBA"))

Bodies == {BodyGarbage, BodyError, BodyNoReturn, BodyBadJson, BodyNoVeh,
           BodyNoMake, BodyNoYear, BodyGoodA, BodyGoodB}

\* the bodies the flow specification lets the backend send
FlowBodies == {BodyError, BodyNoMake, BodyGoodA}

NoVehicle ==
    [isNull |-> TRUE, year |-> "", make |-> "", model |-> "", bodyType |-> "",
     variant |-> "", description |-> <<>>]

extractVehicleFromAuraResponse(responseBody) ==
    IF ~responseBody.parses THEN NoVehicle
    ELSE IF responseBody.state # "SUCCESS" THEN NoVehicle
    ELSE IF responseBody.ret # "json" THEN NoVehicle
    ELSE IF ~responseBody.vehicle.present THEN NoVehicle
    ELSE LET vehicle == responseBody.vehicle IN
         [isNull |-> FALSE,
          year |-> vehicle.yearCreate,
          make |-> OrStr(vehicle.makeName, vehicle.make),
          model |-> OrStr(vehicle.familyName, vehicle.model),
          bodyType |-> OrStr(vehicle.bodyStyleName, vehicle.bodyStyle),
          variant |-> vehicle.variantName,
          description |-> Trim(<<vehicle.yearCreate, Upper(vehicle.makeName),
                                 vehicle.familyName, vehicle.variantName>>)]

\* the mutant of the guarded assignment: whatever was extracted is stored
CaptureFromAlways(body, old) == extractVehicleFromAuraResponse(body)

\* if (vehicle && vehicle.year && vehicle.make) captured.vehicle = vehicle
CaptureFrom(body, old) ==
    LET vehicle == extractVehicleFromAuraResponse(body) IN
    IF ~vehicle.isNull /\ vehicle.year # "" /\ vehicle.make # ""
    THEN vehicle ELSE old

\* a successful, well-formed vehicle record, as the backend sent it
WellFormed(body) ==
    /\ body.parses /\ body.state = "SUCCESS" /\ body.ret = "json"
    /\ body.vehicle.present
    /\ body.vehicle.yearCreate # ""
    /\ (body.vehicle.makeName # "" \/ body.vehicle.make # "")

-----------------------------------------------------------------------------
(* The final page's visible text and the extraction heuristics             *)
(*                                                                         *)
(* The text is a sequence of tokens.  An amount token is the characters of *)
(* one match of /\$[\d,]+(?:\.\d{2})?/; a word token is a run of text      *)
(* between amounts, classified by what the patterns look for in it.        *)

Amt(chars) == [t |-> "amt", s |-> chars]
Word(w)    == [t |-> "word", s |-> <<w>>]

PerYear      == Word("per year")
PerMonth     == Word("per month")
AnnualLabel  == Word("annual premium:")
MonthlyLabel == Word("monthly premium:")
YourQuote    == Word("your quote:")
Payable      == Word("payable")
Excess       == Word("excess")

A_Commas == Amt(<<"$", ",">>)
A_Zero   == Amt(<<"$", "0">>)
A_45     == Amt(<<"$", "4", "5", ".", "5", "0">>)
A_250    == Amt(<<"$", "2", "5", "0">>)
A_650    == Amt(<<"$", "6", "5", "0">>)
A_1200   == Amt(<<"$", "1", ",", "2", "0", "0">>)
A_9000   == Amt(<<"$", "9", "0", "0", "0">>)

Amounts == {A_Commas, A_Zero, A_45, A_250, A_650, A_1200, A_9000}
Words   == {PerYear, PerMonth, AnnualLabel, MonthlyLabel, YourQuote, Payable,
            Excess}

\* every sequence of at most n elements of V
SeqsOver(V, n) == UNION {[1..k -> V] : k \in 0..n}

\* the final page texts the flow specification enumerates
FlowTokens == {A_Commas, A_45, A_1200, PerYear}
FlowTexts == SeqsOver(FlowTokens, MaxFlowTokens)

IsAmt(text, i) == i >= 1 /\ i <= Len(text) /\ text[i].t = "amt"
IsWord(text, i, ws) == i >= 1 /\ i <= Len(text) /\ text[i] \in ws

Digit(c) ==
    CASE c = "0" -> 0 [] c = "1" -> 1 [] c = "2" -> 2 [] c = "3" -> 3
      [] c = "4" -> 4 [] c = "5" -> 5 [] c = "6" -> 6 [] c = "7" -> 7
      [] c = "8" -> 8 [] c = "9" -> 9

RECURSIVE DigitsValue(_)
DigitsValue(cs) ==
    IF cs = <<>> THEN 0
    ELSE 10 * DigitsValue(SubSeq(cs, 1, Len(cs) - 1)) + Digit(cs[Len(cs)])

\* s.replace(/[$,]/g, "")  (and m[1].replace(/,/g, ""), m[1] holding no "$")
StripDollarComma(cs) == SelectSeq(cs, LAMBDA c : c \notin {"$", ","})

\* parseFloat of digits with an optional ".dd": the value in cents, NaN when
\* no digit is left
parseFloat(cs) ==
    LET dots == {i \in 1..Len(cs) : cs[i] = "."}
        dot  == IF dots = {} THEN Len(cs) + 1
                ELSE CHOOSE i \in dots : \A j \in dots : i <= j
        int  == SubSeq(cs, 1, dot - 1)
        frac == SubSeq(cs, dot + 1, Len(cs))
    IN  IF int = <<>> /\ frac = <<>> THEN NaNNum
        ELSE Num(100 * DigitsValue(int) + DigitsValue(frac))

\* the number an amount token stands for
AmountOf(tok) == parseFloat(StripDollarComma(tok.s))

\* the mutant of the amount scan: match without the g flag, first hit only
firstAmountOf(text) ==
    LET all == SelectSeq(text, LAMBDA tok : tok.t = "amt") IN
    IF all = <<>> THEN <<>> ELSE <<Head(all)>>

\* resultText.match(/\$[\d,]+(?:\.\d{2})?/g) || []
allAmountsOf(text) == SelectSeq(text, LAMBDA tok : tok.t = "amt")

\* index of the leftmost match of a pattern, 0 when it does not match
FirstIndex(text, P(_, _)) ==
    LET hits == {i \in 1..Len(text) : P(text, i)} IN
    IF hits = {} THEN 0 ELSE CHOOSE i \in hits : \A j \in hits : i <= j

\* premPatterns[0..3] of rego mode; a pattern's match is identified by the
\* index of the amount token its capture group holds
RegoAnnualAfter(text, i)   == IsAmt(text, i) /\ IsWord(text, i + 1, {PerYear})
RegoAnnualLabel(text, i)   == IsAmt(text, i) /\ IsWord(text, i - 1, {AnnualLabel})
RegoMonthlyAfter(text, i)  ==
    IsAmt(text, i) /\ IsWord(text, i + 1, {PerMonth, MonthlyLabel})
RegoMonthlyLabel(text, i)  == IsAmt(text, i) /\ IsWord(text, i - 1, {MonthlyLabel})

premPatterns ==
    << [id |-> 1, type |-> "annual"], [id |-> 2, type |-> "annual"],
       [id |-> 3, type |-> "monthly"], [id |-> 4, type |-> "monthly"] >>

RegoMatch(text, id) ==
    CASE id = 1 -> FirstIndex(text, RegoAnnualAfter)
      [] id = 2 -> FirstIndex(text, RegoAnnualLabel)
      [] id = 3 -> FirstIndex(text, RegoMonthlyAfter)
      [] id = 4 -> FirstIndex(text, RegoMonthlyLabel)

\* for (const { pattern, type } of premPatterns) { ... }  (no break)
RECURSIVE PremLoop(_, _, _)
PremLoop(text, k, acc) ==
    IF k > Len(premPatterns) THEN acc
    ELSE LET m == RegoMatch(text, premPatterns[k].id) IN
         IF m = 0 THEN PremLoop(text, k + 1, acc)
         ELSE LET amount == AmountOf(text[m]) IN
              IF premPatterns[k].type = "monthly"
              THEN PremLoop(text, k + 1, [acc EXCEPT !.monthly = amount])
              ELSE PremLoop(text, k + 1, [acc EXCEPT !.annual = amount])

\* the mutant of the candidate choice: the last candidate, not the first
LastOr(seq, dflt) == IF Len(seq) > 0 THEN Num(seq[Len(seq)]) ELSE dflt

\* if (candidates.length > 0) x = candidates[0]
FirstOr(seq, dflt) == IF Len(seq) > 0 THEN Num(seq[1]) ELSE dflt

\* the mutant of the tiers: dollars compared with amounts kept in cents
ExcessTiersInDollars == {650, 800, 1000, 1500}

\* [650, 800, 1000, 1500], in cents
ExcessTiers == {65000, 80000, 100000, 150000}

\* the mutant of the extraction: the range fallback is not guarded
RegoExtractUnguarded(text) ==
    LET labelled == PremLoop(text, 1, [annual |-> UndefNum, monthly |-> UndefNum])
        nums == [i \in 1..Len(allAmountsOf(text)) |-> AmountOf(allAmountsOf(text)[i])]
        numericAmounts ==
            [i \in 1..Len(SelectSeq(nums, LAMBDA n : n.k = "number")) |->
                SelectSeq(nums, LAMBDA n : n.k = "number")[i].v]
    IN  [annual  |-> FirstOr(SelectSeq(numericAmounts,
                                LAMBDA n : n >= 30000 /\ n <= 800000),
                             labelled.annual),
         monthly |-> FirstOr(SelectSeq(numericAmounts,
                                LAMBDA n : n >= 2500 /\ n < 30000),
                             labelled.monthly),
         excess  |-> FirstOr(SelectSeq(numericAmounts,
                                LAMBDA n : n \in ExcessTiers), UndefNum)]

\* lines 1026-1064: labelled patterns, then the range fallback
RegoExtract(text) ==
    LET labelled == PremLoop(text, 1, [annual |-> UndefNum, monthly |-> UndefNum])
        nums == [i \in 1..Len(allAmountsOf(text)) |-> AmountOf(allAmountsOf(text)[i])]
        numericAmounts ==
            [i \in 1..Len(SelectSeq(nums, LAMBDA n : n.k = "number")) |->
                SelectSeq(nums, LAMBDA n : n.k = "number")[i].v]
        annualCandidates ==
            SelectSeq(numericAmounts, LAMBDA n : n >= 30000 /\ n <= 800000)
        monthlyCandidates ==
            SelectSeq(numericAmounts, LAMBDA n : n >= 2500 /\ n < 30000)
        excessCandidates ==
            SelectSeq(numericAmounts, LAMBDA n : n \in ExcessTiers)
    IN  IF ~Truthy(labelled.annual) /\ ~Truthy(labelled.monthly)
        THEN [annual  |-> FirstOr(annualCandidates, labelled.annual),
              monthly |-> FirstOr(monthlyCandidates, labelled.monthly),
              excess  |-> FirstOr(excessCandidates, UndefNum)]
        ELSE [annual |-> labelled.annual, monthly |-> labelled.monthly,
              excess |-> UndefNum]

-----------------------------------------------------------------------------
(* Results *)

\* nothing returned or delivered yet
NoResult == [delivered |-> FALSE]

\* RacvQuoteResult (rego mode) and RacvScraperResult (manual mode) in one
\* shape; a field the return statement does not mention is undefined
ResultOf(success, fields) ==
    [delivered |-> TRUE,
     rejected |-> FALSE,
     success |-> success,
     source |-> IF "source" \in DOMAIN fields THEN fields.source ELSE UndefStr,
     vehicle_description |->
        IF "vehicle_description" \in DOMAIN fields
        THEN fields.vehicle_description ELSE UndefStr,
     annual_premium |->
        IF "annual_premium" \in DOMAIN fields
        THEN fields.annual_premium ELSE UndefNum,
     monthly_premium |->
        IF "monthly_premium" \in DOMAIN fields
        THEN fields.monthly_premium ELSE UndefNum,
     excess_amount |->
        IF "excess_amount" \in DOMAIN fields
        THEN fields.excess_amount ELSE UndefNum,
     raw_amounts |->
        IF "raw_amounts" \in DOMAIN fields THEN fields.raw_amounts ELSE UndefArr,
     raw_text |->
        IF "raw_text" \in DOMAIN fields THEN fields.raw_text ELSE UndefArr,
     screenshot_path |->
        IF "screenshot_path" \in DOMAIN fields
        THEN fields.screenshot_path ELSE UndefStr,
     error |-> IF "error" \in DOMAIN fields THEN fields.error ELSE UndefStr,
     step_reached |->
        IF "step_reached" \in DOMAIN fields THEN fields.step_reached ELSE UndefStr]

\* the promise of the call rejects with an error instead of resolving
Rejection == [ResultOf(FALSE, [error |-> Str(<<"rejected">>)]) EXCEPT !.rejected = TRUE]

-----------------------------------------------------------------------------
(* Program constants *)

\* for (let attempt = 1; attempt <= 3; attempt++)
MaxAttempts == 3
\* for (let wait = 0; wait < 25; wait++)
MaxPolls == 25
\* for (let quoteAttempt = 0; quoteAttempt < 2; quoteAttempt++)
MaxQuoteAttempts == 2

\* what the UI shows for a confirmed vehicle (a year+make heading or body text)
UiVehicle == <<"2011", "SUBARU", "FORESTER">>

-----------------------------------------------------------------------------
(* Initial state *)

InitH ==
    [lastStart |-> "none",     \* how the current resolution attempt started
     goodReturned |-> FALSE,   \* the backend sent a well-formed SUCCESS record
     sawNotFound |-> FALSE,    \* a poll saw the explicit not-found message
     fallbackRan |-> FALSE,    \* the manual fallback was entered
     direct |-> FALSE,         \* the direct channel confirmed a vehicle
     unresolved |-> FALSE,     \* the loop ended with no vehicle confirmed
     selected |-> <<>>,        \* cascading selects committed, in order
     applicant |-> FALSE,      \* the applicant (address) stage was entered
     step2Errors |-> {},       \* kinds of error texts visible after step 2,
                               \* kept until the about-you fields are started
     aboutYou |-> FALSE,       \* the about-you fields were started
     backClicks |-> 0,         \* clicks of "back to form"
     resubmits |-> 0,          \* re-submissions after a back-to-form click
     unwaited |-> FALSE,       \* no premium wait has followed the last of them
     finalReached |-> FALSE,   \* the text of the final page was read
     finalText |-> <<>>,       \* that text
     finalErrors |-> <<>>,     \* the error texts visible on the final page
     errorShot |-> "none"]     \* the handler's snapshot: "captured", "failed"

InitFlow ==
    /\ pc = "getBrowser"
    /\ page = "none"
    /\ context = "none"
    /\ captured = NoVehicle
    /\ net = <<>>
    /\ attempt = 0
    /\ wait = 0
    /\ found = FALSE
    /\ notFoundMsg = FALSE
    /\ cv = NoVehicle
    /\ vehicleDesc = <<>>
    /\ quoteAttempt = 0
    /\ quoteLoaded = FALSE
    /\ thrown = "none"
    /\ ret = NoResult
    /\ result = NoResult
    /\ h = InitH

\* the other components are idle while the scraper is the one being run
NoSel == [at |-> "idle"]
NoTool == [at |-> "idle"]
InitApp ==
    /\ sel = NoSel
    /\ tool = NoTool
    /\ transports = [s \in {} |-> 0]
    /\ http = [down |-> "idle"]

\* the snapshot file before any call of this run has written it
NoShot == [written |-> FALSE, by |-> 0]

\* page.screenshot({ path: <fixed path> }) by caller c overwrites the file
ShotBy(c) == [written |-> TRUE, by |-> c]

\* the caller of the modelled scrapeRacvQuote call
Scrape == 0
Callers == 0..NumCallers

\* the handle before the call: null, or the live engine of an earlier call
Init ==
    /\ mode \in {"rego", "manual"}
    /\ InitFlow
    /\ \E b \in {<<0, <<>>>>, <<1, <<"live">>>>} :
          /\ browser = b[1]
          /\ engines = b[2]
    /\ gb = [c \in Callers |-> IF c = Scrape THEN [at |-> "check", e |-> 0]
                                              ELSE [at |-> "idle", e |-> 0]]
    /\ shotFile = NoShot
    /\ InitApp

-----------------------------------------------------------------------------
(* getBrowser / closeBrowser *)

\* browser.isConnected()
isConnected(b) == b # 0 /\ engines[b] = "live"

\* if (!browser || !browser.isConnected()) { browser = await chromium.launch() }
\* up to the await: either the launch is started, or the handle is returned
getBrowserCheck(c) ==
    /\ gb[c].at = "check"
    /\ IF browser = 0 \/ ~isConnected(browser)
       THEN /\ Len(engines) < MaxEngines
            /\ gb' = [gb EXCEPT ![c].at = "launching"]
       ELSE gb' = [gb EXCEPT ![c].at = "returned"]
    /\ UNCHANGED <<browser, engines, shotFile>>

\* chromium.launch() resolves: the new engine is assigned to the handle
getBrowserLaunched(c) ==
    /\ gb[c].at = "launching"
    /\ Len(engines) < MaxEngines
    /\ engines' = Append(engines, "live")
    /\ browser' = Len(engines) + 1
    /\ gb' = [gb EXCEPT ![c].at = "returned"]
    /\ UNCHANGED shotFile

\* chromium.launch() rejects: getBrowser throws to its caller
getBrowserLaunchFailed(c) ==
    /\ gb[c].at = "launching"
    /\ gb' = [gb EXCEPT ![c].at = "threw"]
    /\ UNCHANGED <<browser, engines, shotFile>>

\* if (browser) { await browser.close(); ... }: up to the await
closeBrowserStart(c) ==
    /\ gb[c].at = "idle"
    /\ IF browser # 0
       THEN gb' = [gb EXCEPT ![c] = [at |-> "closing", e |-> browser]]
       ELSE gb' = gb
    /\ UNCHANGED <<browser, engines, shotFile>>

\* browser.close() resolves: the engine is gone, then browser = null
closeBrowserDone(c) ==
    /\ gb[c].at = "closing"
    /\ engines' = [engines EXCEPT ![gb[c].e] = "dead"]
    /\ browser' = 0
    /\ gb' = [gb EXCEPT ![c] = [at |-> "idle", e |-> 0]]
    /\ UNCHANGED shotFile

\* the engine process exits or loses its connection
EngineDisconnect ==
    /\ \E e \in 1..Len(engines) :
          /\ engines[e] = "live"
          /\ engines' = [engines EXCEPT ![e] = "dead"]
    /\ UNCHANGED <<browser, gb, shotFile>>

\* a scrapeRacvQuote call begins: const b = await getBrowser()
CallStart(c) ==
    /\ gb[c].at = "idle"
    /\ gb' = [gb EXCEPT ![c].at = "check"]
    /\ UNCHANGED <<browser, engines, shotFile>>

\* the call reaches its final page and saves the final-stage snapshot to the
\* fixed path (1013; 1431 in manual mode); extraction and the return follow
CallSnapshot(c) ==
    /\ gb[c].at = "returned"
    /\ gb' = [gb EXCEPT ![c].at = "extracting"]
    /\ shotFile' = ShotBy(c)
    /\ UNCHANGED <<browser, engines>>

\* the call runs to its end: it returns a result (which names the fixed path
\* when the snapshot was taken), or the fault handler's result
CallEnd(c) ==
    /\ gb[c].at \in {"returned", "threw", "extracting"}
    /\ gb' = [gb EXCEPT ![c].at = "idle"]
    /\ UNCHANGED <<browser, engines, shotFile>>

-----------------------------------------------------------------------------
(* scrapeRacvQuote: control transfer *)

sessVars  == <<page, context>>
loopVars  == <<attempt, wait, found, notFoundMsg, cv, vehicleDesc>>
quoteVars == <<quoteAttempt, quoteLoaded>>
outVars   == <<ret, result>>

\* an awaited operation rejects inside the try block
Throw(msg) ==
    /\ pc' = "catch"
    /\ thrown' = msg

\* control moves on inside the try block
Goto(label) ==
    /\ pc' = label
    /\ thrown' = thrown

\* a return statement inside try or catch: the finally block runs next
Return(value) ==
    /\ pc' = "finally"
    /\ ret' = value
    /\ thrown' = thrown

-----------------------------------------------------------------------------
(* scrapeRacvQuote, rego mode: session set-up, lines 620-653 *)

\* const b = await getBrowser()  resolved or rejected
Acquire ==
    /\ pc = "getBrowser"
    /\ \/ /\ gb[Scrape].at = "returned"
          /\ Goto(IF mode = "rego" THEN "newContext" ELSE "m_newPage")
       \/ /\ gb[Scrape].at = "threw"
          /\ Throw("launch failed")
    /\ UNCHANGED <<mode, appVars, sessVars, captured, net, loopVars, quoteVars, outVars,
                   h, browserVars>>

\* context = await b.newContext(...)
NewContext ==
    /\ pc = "newContext"
    /\ \/ Goto("newPage") /\ context' = "open"
       \/ Throw("newContext failed") /\ context' = context
    /\ UNCHANGED <<mode, appVars, page, captured, net, loopVars, quoteVars, outVars, h,
                   browserVars>>

\* page = await context.newPage()
NewPage ==
    /\ pc = "newPage"
    /\ \/ Goto("navigate") /\ page' = "open"
       \/ Throw("newPage failed") /\ page' = page
    /\ UNCHANGED <<mode, appVars, context, captured, net, loopVars, quoteVars, outVars,
                   h, browserVars>>

\* page.route, page.on("response"), page.goto(RACV_URL), waitForTimeout
Navigate ==
    /\ pc = "navigate"
    /\ \/ Goto("attempt") /\ attempt' = 1
       \/ Throw("navigation failed") /\ attempt' = attempt
    /\ UNCHANGED <<mode, appVars, sessVars, captured, net, wait, found, notFoundMsg, cv,
                   vehicleDesc, quoteVars, outVars, h, browserVars>>

\* the page.on("response") handler finishes for a response in flight
\* (lines 633-648); it runs whenever the event loop is free, up to the last
\* statement that can read captured.vehicle
OnResponse ==
    /\ page = "open"
    /\ pc \notin {"catch", "finally", "finallyContext", "done"}
    /\ net # <<>>
    /\ captured' = CaptureFrom(Head(net), captured)
    /\ net' = Tail(net)
    /\ UNCHANGED <<mode, appVars, pc, thrown, sessVars, loopVars, quoteVars, outVars, h,
                   browserVars>>

-----------------------------------------------------------------------------
(* rego mode, step 1: the resolution loop, lines 655-862 *)

\* the mutant of the branch condition: the second attempt is not restarted
RestartsAfterSecond(a) == a > 2

\* if (attempt > 1) (659)
Restarts(a) == a > 1

\* loop head and the attempt > 1 branch (lines 656-669)
AttemptStart ==
    /\ pc = "attempt"
    /\ IF ~Restarts(attempt)
       THEN /\ Goto("enterRego")       \* the page is used as it is
            /\ h' = [h EXCEPT !.lastStart = "asis"]
       ELSE \/ /\ Goto("enterRego")       \* regoLink visible: click it
               /\ h' = [h EXCEPT !.lastStart = "link"]
            \/ /\ Throw("regoLink click failed")
               /\ h' = [h EXCEPT !.lastStart = "link"]
            \/ /\ Goto("enterRego")       \* not visible: page.goto(RACV_URL)
               /\ h' = [h EXCEPT !.lastStart = "goto"]
            \/ /\ Throw("navigation failed")
               /\ h' = [h EXCEPT !.lastStart = "goto"]
    /\ UNCHANGED <<mode, appVars, sessVars, captured, net, loopVars, quoteVars, outVars,
                   browserVars>>

\* regoField.waitFor, click, type; findBtn.scrollIntoViewIfNeeded (672-683)
EnterRego ==
    /\ pc = "enterRego"
    /\ \/ Goto("clickFind")
       \/ Throw("rego field timeout")
    /\ UNCHANGED <<mode, appVars, sessVars, captured, net, loopVars, quoteVars, outVars,
                   h, browserVars>>

\* responsePromise is armed, then findBtn.click() (686-701): the backend
\* answers with some responses, which arrive later
ClickFind ==
    /\ pc = "clickFind"
    /\ \/ /\ Goto("awaitResponse")
          /\ \E new \in SeqsOver(FlowBodies, MaxNet - Len(net)) :
                /\ net' = net \o new
                /\ h' = [h EXCEPT !.goodReturned =
                            @ \/ \E i \in 1..Len(new) : WellFormed(new[i])]
       \/ /\ Throw("find click failed")
          /\ UNCHANGED <<net, h>>
    /\ UNCHANGED <<mode, appVars, sessVars, captured, loopVars, quoteVars, outVars,
                   browserVars>>

\* await responsePromise (704): the first matching response was handled by
\* the .then callback, or the 20 s timeout was swallowed by .catch
AwaitResponse ==
    /\ pc = "awaitResponse"
    /\ Goto("poll")
    /\ wait' = 0
    /\ found' = FALSE
    /\ notFoundMsg' = FALSE
    /\ \/ /\ net # <<>>
          /\ captured' = CaptureFrom(Head(net), captured)
          /\ net' = Tail(net)
       \/ UNCHANGED <<captured, net>>
    /\ UNCHANGED <<mode, appVars, sessVars, attempt, cv, vehicleDesc, quoteVars, outVars,
                   h, browserVars>>

\* one iteration of the polling loop (709-740), or its exit at wait = 25
Poll ==
    /\ pc = "poll"
    /\ IF wait < MaxPolls
       THEN \/ \* addressField visible, body text shows year + MAKE
               /\ Goto("loopExit")
               /\ vehicleDesc' = UiVehicle
               /\ found' = TRUE
               /\ h' = [h EXCEPT !.direct = TRUE]
               /\ UNCHANGED <<wait, notFoundMsg>>
            \/ \* addressField visible, no car text in the body
               /\ Goto("loopExit")
               /\ vehicleDesc' = IF ~captured.isNull THEN captured.description
                                 ELSE <<"Vehicle", "found">>
               /\ found' = TRUE
               /\ h' = [h EXCEPT !.direct = TRUE]
               /\ UNCHANGED <<wait, notFoundMsg>>
            \/ \* a heading matches /\d{4}\s+[A-Z]{2,}/
               /\ Goto("loopExit")
               /\ vehicleDesc' = UiVehicle
               /\ found' = TRUE
               /\ h' = [h EXCEPT !.direct = TRUE]
               /\ UNCHANGED <<wait, notFoundMsg>>
            \/ \* body text holds the couldn't-find message
               /\ Goto("grace")
               /\ notFoundMsg' = TRUE
               /\ h' = [h EXCEPT !.sawNotFound = TRUE]
               /\ UNCHANGED <<wait, found, vehicleDesc>>
            \/ \* nothing yet
               /\ Goto("poll")
               /\ wait' = wait + 1
               /\ UNCHANGED <<found, notFoundMsg, vehicleDesc, h>>
            \/ \* waitForTimeout / allTextContents / textContent rejects
               /\ Throw("poll failed")
               /\ UNCHANGED <<wait, found, notFoundMsg, vehicleDesc, h>>
       ELSE /\ Goto("grace")
            /\ UNCHANGED <<wait, found, notFoundMsg, vehicleDesc, h>>
    /\ UNCHANGED <<mode, appVars, sessVars, captured, net, attempt, cv, quoteVars,
                   outVars, browserVars>>

\* await page.waitForTimeout(2000) (748)
Grace ==
    /\ pc = "grace"
    /\ \/ Goto("checkFallback")
       \/ Throw("wait failed")
    /\ UNCHANGED <<mode, appVars, sessVars, captured, net, loopVars, quoteVars, outVars,
                   h, browserVars>>

\* the mutant of the loop end: the attempt counter is not advanced
EndAttemptNoCount ==
    /\ attempt' = attempt
    /\ wait' = 0
    /\ found' = FALSE
    /\ notFoundMsg' = FALSE
    /\ Goto(IF attempt < MaxAttempts THEN "attempt" ELSE "loopExit")

\* end of one loop body: attempt++ and the loop test
EndAttempt ==
    /\ attempt' = attempt + 1
    /\ wait' = 0
    /\ found' = FALSE
    /\ notFoundMsg' = FALSE
    /\ Goto(IF attempt < MaxAttempts THEN "attempt" ELSE "loopExit")

\* the mutant of the guard: the not-found message is not required
FallbackGuardAnyRecord == ~captured.isNull

\* the mutant of the guard: a message seen by any earlier attempt counts
FallbackGuardAnyAttempt == h.sawNotFound /\ ~captured.isNull

\* if (notFoundMsg && cv) (753)
FallbackGuard == notFoundMsg /\ ~captured.isNull

\* const cv = captured.vehicle; if (notFoundMsg && cv) (752-753)
CheckFallback ==
    /\ pc = "checkFallback"
    /\ IF FallbackGuard
       THEN /\ Goto("fb_year")
            /\ cv' = captured
            /\ h' = [h EXCEPT !.fallbackRan = TRUE]
            /\ UNCHANGED <<attempt, wait, found, notFoundMsg>>
       ELSE /\ EndAttempt
            /\ cv' = NoVehicle
            /\ h' = h
    /\ UNCHANGED <<mode, appVars, sessVars, captured, net, vehicleDesc, quoteVars,
                   outVars, browserVars>>


\* the mutant of the step: the dropdown that follows is the one selected
FallbackSelectAhead(field, next) ==
    /\ pc = field
    /\ \/ /\ Goto(next)
          /\ h' = [h EXCEPT !.selected = Append(@, next)]
       \/ /\ Goto(next)
          /\ h' = h
       \/ /\ Throw("select failed")
          /\ h' = h
    /\ UNCHANGED <<mode, appVars, sessVars, captured, net, loopVars, quoteVars,
                   outVars, browserVars>>

\* HUON failure fallback, one cascading select (757-827).  The year select is
\* wrapped in try/catch (763-768); for make, model and body type the option
\* whose text matches the record is selected in the first select offering one
FallbackSelect(field, next) ==
    /\ pc = field
    /\ \/ /\ Goto(next)                   \* a matching option is selected
          /\ h' = [h EXCEPT !.selected = Append(@, field)]
       \/ /\ Goto(next)                   \* no select offers a match
          /\ h' = h
       \/ /\ Throw("select failed")       \* count / allTextContents / selectOption
          /\ h' = h
    /\ UNCHANGED <<mode, appVars, sessVars, captured, net, loopVars, quoteVars, outVars,
                   browserVars>>

\* screenshot racv-manual-search.png, then the Search/Find click (829-837)
FallbackSearch ==
    /\ pc = "fb_search"
    /\ \/ Goto("fb_check")
       \/ Throw("screenshot failed")
       \/ Throw("search click failed")
    /\ UNCHANGED <<mode, appVars, sessVars, captured, net, loopVars, quoteVars, outVars,
                   h, browserVars>>

\* what the manual search led to (839-861)
FallbackCheck ==
    /\ pc = "fb_check"
    /\ \/ \* addressField visible
          /\ Goto("loopExit")
          /\ vehicleDesc' = cv.description
          /\ UNCHANGED <<attempt, wait, found, notFoundMsg>>
       \/ \* a variant heading matches /\d{4}\s+[A-Z]{2,}/
          /\ Goto("loopExit")
          /\ vehicleDesc' = UiVehicle
          /\ UNCHANGED <<attempt, wait, found, notFoundMsg>>
       \/ \* neither: screenshot racv-manual-N.png, attempt failed
          /\ EndAttempt
          /\ vehicleDesc' = vehicleDesc
       \/ /\ Throw("allTextContents failed")
          /\ UNCHANGED <<attempt, wait, found, notFoundMsg, vehicleDesc>>
       \/ /\ Throw("screenshot failed")
          /\ UNCHANGED <<attempt, wait, found, notFoundMsg, vehicleDesc>>
    /\ cv' = cv
    /\ h' = [h EXCEPT !.selected = <<>>]
    /\ UNCHANGED <<mode, appVars, sessVars, captured, net, quoteVars, outVars,
                   browserVars>>

NotFoundError ==
    <<"Could not find a vehicle with registration", "input.rego",
      "after multiple attempts. RACV's lookup service may be temporarily unavailable.">>

\* the diagnostic snapshot of the not-found return (865)
NotFoundShot ==
    \/ Return(ResultOf(FALSE,
            [error |-> Str(NotFoundError),
             step_reached |-> Str(<<"rego_lookup">>),
             screenshot_path |-> Str(<<"/tmp/racv-not-found.png">>)]))
    \/ Throw("screenshot failed") /\ ret' = ret

\* after the loop: if (!vehicleDesc) { screenshot; return not-found } (864-872)
AfterLoop ==
    /\ pc = "loopExit"
    /\ IF StrEmpty(vehicleDesc)
       THEN NotFoundShot
       ELSE Goto("step2") /\ ret' = ret
    /\ attempt' = 0           \* the loop's block-scoped variables end here
    /\ wait' = 0
    /\ found' = FALSE
    /\ notFoundMsg' = FALSE
    /\ cv' = NoVehicle
    /\ captured' = NoVehicle  \* captured.vehicle is not read after the loop:
    /\ net' = <<>>            \* it and the responses in flight are dropped
    /\ h' = [h EXCEPT !.lastStart = "none",
                      !.unresolved = StrEmpty(vehicleDesc)]
    /\ UNCHANGED <<mode, appVars, sessVars, vehicleDesc, quoteVars, result, browserVars>>

-----------------------------------------------------------------------------
(* rego mode, steps 2 and 3: lines 874-1011 *)

\* address, finance, purpose, business name, Continue (878-914)
Step2Fill ==
    /\ pc = "step2"
    /\ h' = [h EXCEPT !.applicant = TRUE]
    /\ \/ Goto("addressCheck")
       \/ Throw("address field failed")
       \/ Throw("continue click failed")
    /\ UNCHANGED <<mode, appVars, sessVars, captured, net, loopVars, quoteVars, outVars,
                   browserVars>>

AddressError ==
    <<"Could not validate the address. Please provide a valid Victorian street address.">>

\* the mutant of the test: every visible text must mention the address
EveryMentionsAddress(errs) == errs = {"address"}

\* errTexts.some(e => /address/i.test(e)) (917)
SomeMentionsAddress(errs) == "address" \in errs

\* the address error check (916-927); errs is the set of kinds of visible
\* [class*='error'] texts
AddressCheck ==
    /\ pc = "addressCheck"
    /\ \/ \E errs \in SUBSET {"address", "other"} :
             /\ h' = [h EXCEPT !.step2Errors = errs]
             /\ IF SomeMentionsAddress(errs)
                THEN Return(ResultOf(FALSE,
                        [vehicle_description |-> Str(vehicleDesc),
                         error |-> Str(AddressError),
                         step_reached |-> Str(<<"your_car">>)]))
                ELSE /\ Goto("step3") \/ Throw("screenshot failed")
                     /\ ret' = ret
       \/ Throw("allTextContents failed") /\ ret' = ret /\ h' = h
    /\ UNCHANGED <<mode, appVars, sessVars, captured, net, loopVars, quoteVars, result,
                   browserVars>>

\* member, gender, age, licence age, claims, screenshot, Continue (932-976)
Step3Fill ==
    /\ pc = "step3"
    \* errTexts of step 2 is not read again once step 3 has begun
    /\ h' = [h EXCEPT !.aboutYou = TRUE, !.step2Errors = {}]
    /\ \/ /\ Goto("quoteWait")
          /\ quoteAttempt' = 0
          /\ quoteLoaded' = FALSE
       \/ /\ Throw("about-you field failed")
          /\ UNCHANGED quoteVars
       \/ /\ Throw("continue click failed")
          /\ UNCHANGED quoteVars
    /\ UNCHANGED <<mode, appVars, sessVars, captured, net, loopVars, outVars,
                   browserVars>>

\* loop head of the quote wait loop and the waitFor of a "$<digit>" text
\* (981-990): it appears, or the 60 s wait times out (caught)
QuoteWait ==
    /\ pc = "quoteWait"
    /\ IF quoteAttempt < MaxQuoteAttempts
       THEN /\ \/ Goto("final") /\ quoteLoaded' = TRUE
               \/ Goto("quoteCheck") /\ quoteLoaded' = quoteLoaded
               \/ Throw("wait failed") /\ quoteLoaded' = quoteLoaded
            /\ h' = [h EXCEPT !.unwaited = FALSE]
       ELSE /\ Goto("final")          \* the loop test fails: no wait is made
            /\ quoteLoaded' = quoteLoaded
            /\ h' = h
    /\ UNCHANGED <<mode, appVars, sessVars, captured, net, loopVars, quoteAttempt,
                   outVars, browserVars>>

\* after a timed-out wait: the system-error check and its recovery (992-1010)
QuoteCheck ==
    /\ pc = "quoteCheck"
    /\ \/ \* no system error text: next iteration
          /\ Goto("quoteWait")
          /\ h' = h
       \/ \* system error, back button not visible
          /\ Goto("quoteWait")
          /\ h' = h
       \/ \* system error, back clicked, Continue not visible
          /\ Goto("quoteWait")
          /\ h' = [h EXCEPT !.backClicks = @ + 1]
       \/ \* system error, back clicked, form re-submitted: continue
          /\ Goto("quoteWait")
          /\ h' = [h EXCEPT !.backClicks = @ + 1, !.resubmits = @ + 1,
                            !.unwaited = TRUE]
       \/ \* textContent rejects
          /\ Throw("textContent failed")
          /\ h' = h
       \/ \* backBtn.click() rejects
          /\ Throw("back click failed")
          /\ h' = h
       \/ \* retryBtn.scrollIntoViewIfNeeded / click rejects
          /\ Throw("retry click failed")
          /\ h' = [h EXCEPT !.backClicks = @ + 1]
    /\ quoteAttempt' = IF pc' = "quoteWait" THEN quoteAttempt + 1
                       ELSE quoteAttempt
    /\ UNCHANGED <<mode, appVars, sessVars, captured, net, loopVars, quoteLoaded,
                   outVars, browserVars>>

-----------------------------------------------------------------------------
(* rego mode, step 4: lines 1011-1099 *)

\* waitForTimeout(3000); screenshot racv-quote-result.png (1011-1013)
FinalShot ==
    /\ pc = "final"
    /\ \/ Goto("extract") /\ shotFile' = ShotBy(Scrape)
       \/ Throw("screenshot failed") /\ shotFile' = shotFile
    /\ UNCHANGED <<mode, appVars, sessVars, captured, net, loopVars, quoteVars, outVars,
                   h, browser, engines, gb>>

\* the mutant of the reference: the snapshot of the filled step-3 form
Step3Shot == Str(<<"/tmp/racv-step3-filled.png">>)

\* screenshot_path of the returns of step 4 (1075, 1088, 1098)
QuoteShot == Str(<<"/tmp/racv-quote-result.png">>)

ExtractError ==
    <<"Reached the end of the form but could not extract a premium. The page may require additional steps.">>

\* the mutant of the message: the texts are joined without the filter
ValidationErrorUnfiltered(currentErrors) ==
    <<"Form validation errors:">> \o currentErrors

\* currentErrors.filter(e => e.trim()).join(", ") after the fixed prefix
ValidationError(currentErrors) ==
    <<"Form validation errors:">> \o SelectSeq(currentErrors, LAMBDA e : e # " ")

\* the return statements of lines 1066-1099 for the page text and the visible
\* error texts
RegoOutcome(text, currentErrors) ==
    LET x == RegoExtract(text) IN
    IF Truthy(x.annual) \/ Truthy(x.monthly)
    THEN ResultOf(TRUE,
            [vehicle_description |-> Str(vehicleDesc),
             annual_premium |-> x.annual,
             monthly_premium |-> x.monthly,
             excess_amount |-> x.excess,
             raw_amounts |-> Arr(allAmountsOf(text)),
             screenshot_path |-> QuoteShot])
    ELSE IF Len(currentErrors) > 0
    THEN ResultOf(FALSE,
            [vehicle_description |-> Str(vehicleDesc),
             error |-> Str(ValidationError(currentErrors)),
             step_reached |-> Str(<<"about_you">>),
             raw_amounts |-> Arr(allAmountsOf(text)),
             screenshot_path |-> QuoteShot])
    ELSE ResultOf(FALSE,
            [vehicle_description |-> Str(vehicleDesc),
             error |-> Str(ExtractError),
             step_reached |-> Str(<<"quote_result">>),
             raw_amounts |-> Arr(allAmountsOf(text)),
             screenshot_path |-> QuoteShot])

\* the visible error texts the model lets the page show at the end
ErrorLists == {<<>>, <<" ">>, <<"Please enter a valid address">>}

\* resultText = page.textContent("body"), headings, extraction, return
Extract ==
    /\ pc = "extract"
    /\ \E text \in FlowTexts :
          \/ \E currentErrors \in ErrorLists :
                /\ h' = [h EXCEPT !.finalReached = TRUE, !.finalText = text,
                                  !.finalErrors = currentErrors]
                /\ Return(RegoOutcome(text, currentErrors))
          \/ \* allTextContents of the headings or of the errors rejects
             /\ Throw("allTextContents failed")
             /\ ret' = ret
             /\ h' = [h EXCEPT !.finalReached = TRUE, !.finalText = text]
    /\ UNCHANGED <<mode, appVars, sessVars, captured, net, loopVars, quoteVars, result,
                   browserVars>>

\* page.textContent("body") itself rejects (1018)
ExtractReadFailed ==
    /\ pc = "extract"
    /\ Throw("textContent failed")
    /\ UNCHANGED <<mode, appVars, sessVars, captured, net, loopVars, quoteVars, outVars,
                   h, browserVars>>

-----------------------------------------------------------------------------
(* catch and finally: lines 1101-1118 (rego) and 1505-1522 (manual) *)

\* the mutant of the message: the bare text of the caught error
ScraperErrorBare(msg) == <<msg>>

\* `Scraper error: ${error.message}` (1108, 1515)
ScraperError(msg) == <<"Scraper error:", msg>>

\* the mutant of the handler's result: it names a stage as well
CatchResultWithStep ==
    ResultOf(FALSE,
        [error |-> Str(ScraperError(thrown)),
         step_reached |-> Str(<<"quote_result">>),
         screenshot_path |-> Str(<<"/tmp/racv-error.png">>)])

\* the object returned by the catch block (1105-1109, 1511-1516)
CatchResult ==
    IF mode = "rego"
    THEN ResultOf(FALSE,
            [error |-> Str(ScraperError(thrown)),
             screenshot_path |-> Str(<<"/tmp/racv-error.png">>)])
    ELSE ResultOf(FALSE,
            [source |-> Str(<<"mock">>),
             error |-> Str(ScraperError(thrown)),
             screenshot_path |-> Str(<<"/tmp/racv-error.png">>)])

\* the mutant of the handler's snapshot: no .catch(() => {}) on it
SnapshotUnguarded == {"fulfilled", "rejected"}

\* how `await page.screenshot(...).catch(() => {})` settles (1104, 1508-1510)
SnapshotInHandler == {"fulfilled"}

\* the catch block; an error thrown inside it would reject the call after
\* the finally block has run.  The variables declared inside the try block
\* are out of scope from here on
Catch ==
    /\ pc = "catch"
    /\ \E settled \in (IF page = "none" THEN {"fulfilled"} ELSE SnapshotInHandler) :
          IF settled = "rejected" THEN Return(Rejection) ELSE Return(CatchResult)
    /\ \E shot \in (IF page = "none" THEN {"none"} ELSE {"captured", "failed"}) :
          h' = [h EXCEPT !.errorShot = shot]
    /\ captured' = NoVehicle
    /\ net' = <<>>
    /\ attempt' = 0
    /\ wait' = 0
    /\ found' = FALSE
    /\ notFoundMsg' = FALSE
    /\ cv' = NoVehicle
    /\ vehicleDesc' = <<>>
    /\ quoteAttempt' = 0
    /\ quoteLoaded' = FALSE
    /\ UNCHANGED <<mode, appVars, sessVars, result, browserVars>>

\* the mutant of the close: the finally block leaves x as it is
CloseSkipped(x) == {x}

\* await x.close().catch(() => {}): the state of x afterwards
CloseOutcomes(x) == IF x \in {"open", "owned"} THEN {"closed", "closeFailed"}
                    ELSE {x}

\* if (page) await page.close().catch(() => {}).  A page made by
\* browser.newPage() owns its context, which page.close() closes with it
FinallyPage ==
    /\ pc = "finally"
    /\ \E p \in CloseOutcomes(page) :
          /\ page' = p
          /\ context' = IF context = "owned" THEN p ELSE context
    /\ pc' = "finallyContext"
    /\ UNCHANGED <<mode, appVars, thrown, captured, net, loopVars, quoteVars, outVars, h,
                   browserVars>>

\* if (context) await context.close().catch(() => {}); then the promise of
\* the call resolves with the returned value
FinallyContext ==
    /\ pc = "finallyContext"
    /\ \E c \in CloseOutcomes(context) : context' = c
    /\ pc' = "done"
    /\ result' = ret
    /\ UNCHANGED <<mode, appVars, thrown, page, captured, net, loopVars, quoteVars, ret, h,
                   browserVars>>

-----------------------------------------------------------------------------
(* scrapeRacvQuote, manual mode: lines 1201-1523 *)

\* page = await b.newPage(...): a page in a context of its own (1208)
ManualNewPage ==
    /\ pc = "m_newPage"
    /\ \/ Goto("m_navigate") /\ page' = "open" /\ context' = "owned"
       \/ Throw("newPage failed") /\ UNCHANGED sessVars
    /\ UNCHANGED <<mode, appVars, captured, net, loopVars, quoteVars, outVars, h,
                   browserVars>>

\* route, goto, "Find your car manually" waitFor and click (1215-1234)
ManualNavigate ==
    /\ pc = "m_navigate"
    /\ \/ Goto("m_year")
       \/ Throw("navigation failed")
       \/ Throw("manual link timeout")
    /\ UNCHANGED <<mode, appVars, sessVars, captured, net, loopVars, quoteVars, outVars,
                   h, browserVars>>

\* one cascading select: year (1241-1250), make (1254-1265), model
\* (1269-1278), body type (1282-1297)
ManualSelect(field, next) ==
    /\ pc = field
    /\ \/ /\ Goto(next)                   \* visible and an option is selected
          /\ h' = [h EXCEPT !.selected = Append(@, field)]
       \/ /\ Goto(next)                   \* not visible, or no option matches
          /\ field # "m_year"
          /\ h' = h
       \/ /\ Throw("select failed")
          /\ h' = h
    /\ UNCHANGED <<mode, appVars, sessVars, captured, net, loopVars, quoteVars, outVars,
                   browserVars>>

\* screenshots, variant row, Next, About You fields, Next (1299-1431)
ManualVariant ==
    /\ pc = "m_variant"
    /\ \/ Goto("m_about")
       \/ Throw("screenshot failed")
       \/ Throw("variant click failed")
    /\ UNCHANGED <<mode, appVars, sessVars, captured, net, loopVars, quoteVars, outVars,
                   h, browserVars>>

ManualAbout ==
    /\ pc = "m_about"
    /\ h' = [h EXCEPT !.applicant = TRUE]
    /\ \/ Goto("m_submit")
       \/ Throw("about-you field failed")
    /\ UNCHANGED <<mode, appVars, sessVars, captured, net, loopVars, quoteVars, outVars,
                   browserVars>>

ManualSubmit ==
    /\ pc = "m_submit"
    /\ \/ Goto("m_extract")
       \/ Throw("continue click failed")
       \/ Throw("screenshot failed")
    /\ UNCHANGED <<mode, appVars, sessVars, captured, net, loopVars, quoteVars, outVars,
                   h, browserVars>>

\* premiumPatterns[0..2] and monthlyPatterns[0..1] of manual mode
ManualAnnualAfter(text, i) ==
    IsAmt(text, i) /\ IsWord(text, i + 1, {PerYear, Payable})
ManualAnnualLabel(text, i) == IsAmt(text, i) /\ IsWord(text, i - 1, {AnnualLabel})
ManualQuoteLabel(text, i)  == IsAmt(text, i) /\ IsWord(text, i - 1, {YourQuote})
ManualMonthlyAfter(text, i) ==
    IsAmt(text, i) /\ IsWord(text, i + 1, {PerMonth, MonthlyLabel})
ManualMonthlyLabel(text, i) ==
    IsAmt(text, i) /\ IsWord(text, i - 1, {MonthlyLabel})

ManualMatch(text, id) ==
    CASE id = 1 -> FirstIndex(text, ManualAnnualAfter)
      [] id = 2 -> FirstIndex(text, ManualAnnualLabel)
      [] id = 3 -> FirstIndex(text, ManualQuoteLabel)
      [] id = 4 -> FirstIndex(text, ManualMonthlyAfter)
      [] id = 5 -> FirstIndex(text, ManualMonthlyLabel)

\* for (const pattern of patterns) { if (match) { x = ...; break; } }
RECURSIVE FirstPattern(_, _, _)
FirstPattern(text, ids, k) ==
    IF k > Len(ids) THEN UndefNum
    ELSE LET m == ManualMatch(text, ids[k]) IN
         IF m # 0 THEN AmountOf(text[m]) ELSE FirstPattern(text, ids, k + 1)

\* the largest element of a non-empty set of numbers
Largest(S) == CHOOSE n \in S : \A m \in S : m <= n

\* lines 1437-1481
ManualExtractOf(text) ==
    LET annual  == FirstPattern(text, <<1, 2, 3>>, 1)
        monthly == FirstPattern(text, <<4, 5>>, 1)
        amts == allAmountsOf(text)
        numericAmounts ==
            {AmountOf(amts[i]).v : i \in {j \in 1..Len(amts) :
                /\ AmountOf(amts[j]).k = "number"
                /\ AmountOf(amts[j]).v > 20000
                /\ AmountOf(amts[j]).v < 1000000}}
    IN  IF ~Truthy(annual) /\ ~Truthy(monthly) /\ numericAmounts # {}
        THEN [annual |-> Num(Largest(numericAmounts)), monthly |-> monthly]
        ELSE [annual |-> annual, monthly |-> monthly]

ManualExtractError ==
    <<"Could not extract premium from page. The form may require additional fields or encountered an error. Screenshots saved for debugging.">>

\* the return statements of lines 1483-1504
ManualOutcome(text) ==
    LET x == ManualExtractOf(text) IN
    IF Truthy(x.annual) \/ Truthy(x.monthly)
    THEN ResultOf(TRUE,
            [source |-> Str(<<"racv_website">>),
             annual_premium |-> x.annual,
             monthly_premium |-> x.monthly,
             screenshot_path |-> Str(<<"/tmp/racv-result.png">>)])
    ELSE ResultOf(FALSE,
            [source |-> Str(<<"racv_website">>),
             error |-> Str(ManualExtractError),
             raw_text |-> Arr(text),
             screenshot_path |-> Str(<<"/tmp/racv-result.png">>)])

\* waitForTimeout, screenshot, pageContent = page.textContent("body"),
\* extraction and return (1430-1504)
ManualExtract ==
    /\ pc = "m_extract"
    /\ \/ /\ \E text \in FlowTexts :
                /\ h' = [h EXCEPT !.finalReached = TRUE, !.finalText = text]
                /\ Return(ManualOutcome(text))
          /\ shotFile' = ShotBy(Scrape)
       \/ /\ Throw("screenshot failed")
          /\ UNCHANGED <<ret, h, shotFile>>
       \/ /\ Throw("textContent failed")
          /\ shotFile' = ShotBy(Scrape)
          /\ UNCHANGED <<ret, h>>
    /\ UNCHANGED <<mode, appVars, sessVars, captured, net, loopVars, quoteVars, result,
                   browser, engines, gb>>

-----------------------------------------------------------------------------
(* The specification of one call *)

Next ==
    \/ getBrowserCheck(Scrape) /\ UNCHANGED <<flowVars, appVars>>
    \/ getBrowserLaunched(Scrape) /\ UNCHANGED <<flowVars, appVars>>
    \/ getBrowserLaunchFailed(Scrape) /\ UNCHANGED <<flowVars, appVars>>
    \/ Acquire
    \/ NewContext
    \/ NewPage
    \/ Navigate
    \/ OnResponse
    \/ AttemptStart
    \/ EnterRego
    \/ ClickFind
    \/ AwaitResponse
    \/ Poll
    \/ Grace
    \/ CheckFallback
    \/ FallbackSelect("fb_year", "fb_make")
    \/ FallbackSelect("fb_make", "fb_model")
    \/ FallbackSelect("fb_model", "fb_body")
    \/ FallbackSelect("fb_body", "fb_search")
    \/ FallbackSearch
    \/ FallbackCheck
    \/ AfterLoop
    \/ Step2Fill
    \/ AddressCheck
    \/ Step3Fill
    \/ QuoteWait
    \/ QuoteCheck
    \/ FinalShot
    \/ Extract
    \/ ExtractReadFailed
    \/ Catch
    \/ FinallyPage
    \/ FinallyContext
    \/ ManualNewPage
    \/ ManualNavigate
    \/ ManualSelect("m_year", "m_make")
    \/ ManualSelect("m_make", "m_model")
    \/ ManualSelect("m_model", "m_body")
    \/ ManualSelect("m_body", "m_variant")
    \/ ManualVariant
    \/ ManualAbout
    \/ ManualSubmit
    \/ ManualExtract

Spec == Init /\ [][Next]_vars

\* The same call under the scheduling of the event loop: a continuation runs
\* once the promise it awaits has settled, and every browser wait settles
\* (it resolves, or rejects at its timeout), so a call that can take a step
\* eventually takes one.
SpecLive == Init /\ [][Next]_vars /\ WF_vars(Next)

-----------------------------------------------------------------------------
(* The specification of the shared engine handle: several calls acquire the *)
(* engine concurrently (each await is a point where another call may run),  *)
(* engines may disconnect, and closeBrowser may be called.                  *)

InitBrowser ==
    /\ mode = "rego"
    /\ InitFlow
    /\ browser = 0
    /\ engines = <<>>
    /\ gb = [c \in Callers |-> [at |-> "idle", e |-> 0]]
    /\ shotFile = NoShot
    /\ InitApp

NextBrowser ==
    \/ \E c \in Callers : CallStart(c) /\ UNCHANGED <<flowVars, appVars>>
    \/ \E c \in Callers : getBrowserCheck(c) /\ UNCHANGED <<flowVars, appVars>>
    \/ \E c \in Callers : getBrowserLaunched(c) /\ UNCHANGED <<flowVars, appVars>>
    \/ \E c \in Callers : getBrowserLaunchFailed(c) /\ UNCHANGED <<flowVars, appVars>>
    \/ \E c \in Callers : CallSnapshot(c) /\ UNCHANGED <<flowVars, appVars>>
    \/ \E c \in Callers : CallEnd(c) /\ UNCHANGED <<flowVars, appVars>>
    \/ \E c \in Callers : closeBrowserStart(c) /\ UNCHANGED <<flowVars, appVars>>
    \/ \E c \in Callers : closeBrowserDone(c) /\ UNCHANGED <<flowVars, appVars>>
    \/ EngineDisconnect /\ UNCHANGED <<flowVars, appVars>>

SpecBrowser == InitBrowser /\ [][NextBrowser]_vars

LiveEngines == {e \in 1..Len(engines) : engines[e] = "live"}

-----------------------------------------------------------------------------
(* The specification of the extraction stage alone: the final page text is  *)
(* an input drawn from every text of at most MaxExtractTokens tokens, and   *)
(* the stage of either mode is applied to it.                               *)

ExtractTexts == SeqsOver(Amounts \cup Words, MaxExtractTokens)

InitExtract ==
    /\ mode \in {"rego", "manual"}
    /\ pc = "x_page"
    /\ page = "open"
    /\ context = "open"
    /\ captured = NoVehicle
    /\ net = <<>>
    /\ attempt = 0
    /\ wait = 0
    /\ found = FALSE
    /\ notFoundMsg = FALSE
    /\ cv = NoVehicle
    /\ vehicleDesc = UiVehicle
    /\ quoteAttempt = 0
    /\ quoteLoaded = FALSE
    /\ thrown = "none"
    /\ ret = NoResult
    /\ result = NoResult
    /\ \E text \in ExtractTexts :
          h = [InitH EXCEPT !.finalReached = TRUE, !.finalText = text]
    /\ browser = 0
    /\ engines = <<>>
    /\ gb = [c \in Callers |-> [at |-> "idle", e |-> 0]]
    /\ shotFile = NoShot
    /\ InitApp

\* lines 1023-1099 applied to the text: the value of the return statement
ApplyRegoExtract ==
    /\ pc = "x_page"
    /\ mode = "rego"
    /\ \E currentErrors \in ErrorLists :
          /\ ret' = RegoOutcome(h.finalText, currentErrors)
          /\ h' = [h EXCEPT !.finalErrors = currentErrors]
    /\ pc' = "x_returned"
    /\ UNCHANGED <<mode, appVars, thrown, sessVars, captured, net, loopVars, quoteVars,
                   result, browserVars>>

\* lines 1437-1504 applied to the text: the value of the return statement
ApplyManualExtract ==
    /\ pc = "x_page"
    /\ mode = "manual"
    /\ ret' = ManualOutcome(h.finalText)
    /\ pc' = "x_returned"
    /\ UNCHANGED <<mode, appVars, thrown, sessVars, captured, net, loopVars, quoteVars,
                   result, h, browserVars>>

NextExtract ==
    \/ ApplyRegoExtract
    \/ ApplyManualExtract

SpecExtract == InitExtract /\ [][NextExtract]_vars

-----------------------------------------------------------------------------
(* The option-matching loops of the fallback's make, model and body-type    *)
(* steps (772-827), character by character.  A text is a sequence of        *)
(* one-character strings; a select is the sequence of its option texts, as  *)
(* allTextContents returns them; the page is the sequence of its visible    *)
(* selects.                                                                 *)

\* most options of one select, most visible selects on the page
MaxOptions == 2
MaxSelects == 2

UpperLetters == <<"A", "B", "C", "D", "E", "F", "G", "H", "I", "J", "K", "L", "M",
                  "N", "O", "P", "Q", "R", "S", "T", "U", "V", "W", "X", "Y", "Z">>
LowerLetters == <<"a", "b", "c", "d", "e", "f", "g", "h", "i", "j", "k", "l", "m",
                  "n", "o", "p", "q", "r", "s", "t", "u", "v", "w", "x", "y", "z">>

\* the letter of the sequence `to` at the place the character has in `from`
MapLetter(c, from, to) ==
    IF \E k \in DOMAIN from : from[k] = c
    THEN to[CHOOSE k \in DOMAIN from : from[k] = c]
    ELSE c

\* String.prototype.toUpperCase
toUpperCase(s) == [i \in 1..Len(s) |-> MapLetter(s[i], LowerLetters, UpperLetters)]

\* String.prototype.toLowerCase
toLowerCase(s) == [i \in 1..Len(s) |-> MapLetter(s[i], UpperLetters, LowerLetters)]

\* String.prototype.includes
includes(s, t) ==
    \E i \in 0..(Len(s) - Len(t)) : SubSeq(s, i + 1, i + Len(t)) = t

\* String.prototype.trim
RECURSIVE trim(_)
trim(s) ==
    IF s # <<>> /\ Head(s) = " " THEN trim(Tail(s))
    ELSE IF s # <<>> /\ s[Len(s)] = " " THEN trim(SubSeq(s, 1, Len(s) - 1))
    ELSE s

\* the predicate given to find for make and model (777-780, 796-799)
nameMatches(o, want) ==
    \/ includes(toUpperCase(o), toUpperCase(want))
    \/ includes(toUpperCase(want), trim(toUpperCase(o)))

\* the predicate given to find for the body type (816-820)
bodyMatches(o, want) ==
    LET upper == trim(toUpperCase(o)) IN
    \/ includes(upper, toUpperCase(want))
    \/ includes(toUpperCase(want), upper)

optionMatches(field, o, want) ==
    IF field = "body" THEN bodyMatches(o, want) ELSE nameMatches(o, want)

\* Array.prototype.find: the index of the first element that satisfies the
\* predicate, 0 for undefined
find(field, options, want) ==
    LET hits == {i \in 1..Len(options) : optionMatches(field, options[i], want)}
    IN IF hits = {} THEN 0 ELSE CHOOSE i \in hits : \A j \in hits : i <= j

NoPick == [select |-> 0, label |-> <<>>]

\* for (let i = 0; i < count; i++) { find; if (opt && opt.trim()) { select;
\* break; } } from select number i on: the select and the label handed to
\* selectOption, or NoPick when the loop ends without a selection
RECURSIVE selectLoop(_, _, _, _)
selectLoop(field, selects, want, i) ==
    IF i > Len(selects) THEN NoPick
    ELSE LET k == find(field, selects[i], want) IN
         IF k # 0 /\ trim(selects[i][k]) # <<>>
         THEN [select |-> i, label |-> trim(selects[i][k])]
         ELSE selectLoop(field, selects, want, i + 1)

\* option texts: "", " ", "Ab", "B " and "C"
OptionTexts == {<<>>, <<" ">>, <<"A", "b">>, <<"B", " ">>, <<"C">>}

\* the strings of the captured record: "AB", "b"
RecordTexts == {<<"A", "B">>, <<"b">>}

Selects == UNION {[1..n -> OptionTexts] : n \in 1..MaxOptions}
Pages == UNION {[1..n -> Selects] : n \in 1..MaxSelects}

InitSelect ==
    /\ mode = "rego"
    /\ InitFlow
    /\ browser = 0
    /\ engines = <<>>
    /\ gb = [c \in Callers |-> [at |-> "idle", e |-> 0]]
    /\ shotFile = NoShot
    /\ tool = NoTool
    /\ transports = [s \in {} |-> 0]
    /\ http = [down |-> "idle"]
    /\ \E f \in {"make", "model", "body"}, p \in Pages, w \in RecordTexts :
          sel = [at |-> "loop", field |-> f, selects |-> p, want |-> w,
                 picked |-> NoPick]

\* the make loop (772-787) and the model loop (790-806)
ApplyNameSelect ==
    /\ sel.at = "loop"
    /\ sel.field \in {"make", "model"}
    /\ sel' = [sel EXCEPT !.at = "done",
                          !.picked = selectLoop(sel.field, sel.selects,
                                                sel.want, 1)]
    /\ UNCHANGED <<flowVars, browserVars, tool, transports, http>>

\* the body-type loop (809-827)
ApplyBodySelect ==
    /\ sel.at = "loop"
    /\ sel.field = "body"
    /\ sel' = [sel EXCEPT !.at = "done",
                          !.picked = selectLoop("body", sel.selects,
                                                sel.want, 1)]
    /\ UNCHANGED <<flowVars, browserVars, tool, transports, http>>

NextSelect ==
    \/ ApplyNameSelect
    \/ ApplyBodySelect

SpecSelect == InitSelect /\ [][NextSelect]_vars


-----------------------------------------------------------------------------
(* The pricing calculator (src/src/utils/quote-calculator.ts) and the       *)
(* get_motor_quote tool of the manual-mode server (src/unnamed/part_003).   *)
(* The calculator's amounts are whole dollars, the scraper's are cents.     *)
(* The JSON files the calculator loads are data outside the sources; the    *)
(* tables below stand for them, in the shape the code reads them in.        *)

\* Math.round(n / d) for n >= 0 and d > 0
RoundDiv(n, d) == (2 * n + d) \div (2 * d)

\* a multiplier of the pricing rules, as the fraction n / d
Times(n, d) == [n |-> n, d |-> d]

\* vehicles.json: make -> model -> { category, base_value }, in key order
vehicles ==
    << [make |-> <<"B", "M", "W">>,
        models |-> << [model |-> <<"X", "5">>,
                       category |-> "luxury", base_value |-> 95000],
                      [model |-> <<"3", " ", "S", "e", "r", "i", "e", "s">>,
                       category |-> "luxury", base_value |-> 70000] >>],
       [make |-> <<"M", "a", "z", "d", "a">>,
        models |-> << [model |-> <<"C", "X", "-", "5">>,
                       category |-> "economy", base_value |-> 38000] >>] >>

\* pricing-rules.json
pricingRules ==
    [base_rates |-> [economy  |-> [min |-> 800,  max |-> 1200],
                     midrange |-> [min |-> 1100, max |-> 1700],
                     luxury   |-> [min |-> 1900, max |-> 2900]],
     age_multipliers |->
        << [min_age |-> 17, max_age |-> 24, multiplier |-> Times(3, 2)],
           [min_age |-> 25, max_age |-> 69, multiplier |-> Times(1, 1)] >>,
     claims_multipliers |-> << Times(1, 1), Times(6, 5), Times(3, 2) >>,
     postcode_risk_multipliers |->
        [high |-> Times(6, 5), medium |-> Times(1, 1), low |-> Times(9, 10)],
     parking_multipliers |->
        [garage |-> Times(9, 10), carport |-> Times(19, 20),
         street |-> Times(11, 10), driveway |-> Times(1, 1)],
     vehicle_age_adjustments |->
        << [min_years |-> 0, max_years |-> 1, multiplier |-> Times(11, 10)] >>,
     range_spread_pct |-> 15,
     excess_options |->
        << [amount |-> 500,  label |-> "$500 excess",   discount_pct |-> 0],
           [amount |-> 750,  label |-> "$750 excess",   discount_pct |-> 3],
           [amount |-> 1000, label |-> "$1,000 excess", discount_pct |-> 7],
           [amount |-> 1500, label |-> "$1,500 excess", discount_pct |-> 12] >>]

\* postcodes.json
postcodes ==
    [risk_zones |->
        << [zone |-> "high", postcodes |-> {<<"3", "0", "0", "0">>},
            ranges |-> << <<3050, 3099>> >>],
           [zone |-> "low", postcodes |-> {},
            ranges |-> << <<3300, 3999>> >>] >>]

\* s.replace(/[-\s]/g, "")
stripHyphensAndSpaces(s) == SelectSeq(s, LAMBDA c : c \notin {"-", " "})

\* the mutant of the model comparison: letter case only
modelKeyCaseOnly(s) == toLowerCase(s)

\* mod.toLowerCase().replace(/[-\s]/g, "") (69)
modelKey(s) == stripHyphensAndSpaces(toLowerCase(s))

\* the index of the first element of seq that satisfies Test, 0 for undefined
FirstWhere(seq, Test(_)) ==
    LET hits == {i \in DOMAIN seq : Test(seq[i])} IN
    IF hits = {} THEN 0 ELSE CHOOSE i \in hits : \A j \in hits : i <= j

NoVehicleInfo == [isNull |-> TRUE, category |-> "", base_value |-> 0]

\* getVehicleInfo (62-74)
getVehicleInfo(make, model) ==
    LET makeNorm ==
            FirstWhere(vehicles,
                       LAMBDA e : toLowerCase(e.make) = toLowerCase(make))
    IN  IF makeNorm = 0 THEN NoVehicleInfo
        ELSE LET models == vehicles[makeNorm].models
                 modelNorm ==
                     FirstWhere(models,
                                LAMBDA e : modelKey(e.model) = modelKey(model))
             IN  IF modelNorm = 0 THEN NoVehicleInfo
                 ELSE [isNull |-> FALSE,
                       category |-> models[modelNorm].category,
                       base_value |-> models[modelNorm].base_value]

DigitChars == {"0", "1", "2", "3", "4", "5", "6", "7", "8", "9"}

\* getPostcodeRiskZone (76-88), for a postcode that parseInt reads whole
getPostcodeRiskZone(postcode) ==
    LET pcode == DigitsValue(postcode)
        zones == postcodes.risk_zones
        hit == FirstWhere(zones,
                   LAMBDA z : \/ postcode \in z.postcodes
                              \/ \E r \in DOMAIN z.ranges :
                                    pcode >= z.ranges[r][1] /\ pcode <= z.ranges[r][2])
    IN  IF hit = 0 THEN "medium" ELSE zones[hit].zone

\* getAgeMultiplier (90-97)
getAgeMultiplier(age) ==
    LET hit == FirstWhere(pricingRules.age_multipliers,
                          LAMBDA b : age >= b.min_age /\ age <= b.max_age)
    IN  IF hit = 0 THEN Times(1, 1)
        ELSE pricingRules.age_multipliers[hit].multiplier

\* getVehicleAgeMultiplier (99-108)
getVehicleAgeMultiplier(vehicleYear, currentYear) ==
    LET age == currentYear - vehicleYear
        hit == FirstWhere(pricingRules.vehicle_age_adjustments,
                          LAMBDA b : age >= b.min_years /\ age <= b.max_years)
    IN  IF hit = 0 THEN Times(1, 1)
        ELSE pricingRules.vehicle_age_adjustments[hit].multiplier

RECURSIVE Power(_, _)
Power(b, e) == IF e = 0 THEN 1 ELSE b * Power(b, e - 1)

\* depreciate (110-116): baseValue * (1 - 0.12) ^ age, rounded
depreciate(baseValue, vehicleYear, currentYear) ==
    LET age == currentYear - vehicleYear IN
    IF age <= 0 THEN baseValue
    ELSE RoundDiv(baseValue * Power(88, age), Power(100, age))

\* const baseValue = vehicleInfo?.base_value ?? 35000 (121)
DefaultBaseValue == 35000

\* pricingRules.claims_multipliers[String(n)] ?? 1.0 (128-129)
claimsMultiplier(n) ==
    IF n + 1 \in DOMAIN pricingRules.claims_multipliers
    THEN pricingRules.claims_multipliers[n + 1] ELSE Times(1, 1)

NoQuote == [isNull |-> TRUE]

\* calculateQuote (118-194); quote_id and valid_until, which come from the
\* random source and the clock, are left out
calculateQuote(input, currentYear) ==
    LET vehicleInfo == getVehicleInfo(input.vehicle_make, input.vehicle_model)
        category == IF vehicleInfo.isNull THEN "midrange"
                    ELSE vehicleInfo.category
        baseValue == IF vehicleInfo.isNull THEN DefaultBaseValue
                     ELSE vehicleInfo.base_value
        estimatedValue == depreciate(baseValue, input.vehicle_year, currentYear)
        baseRate == pricingRules.base_rates[category]
        riskZone == getPostcodeRiskZone(input.postcode)
        ms == << getAgeMultiplier(input.driver_age),
                 claimsMultiplier(input.claims_last_5_years),
                 pricingRules.postcode_risk_multipliers[riskZone],
                 pricingRules.parking_multipliers[input.parking_type],
                 getVehicleAgeMultiplier(input.vehicle_year, currentYear) >>
        \* basePremium = (min + max) / 2, times the five multipliers
        annualPremium ==
            RoundDiv((baseRate.min + baseRate.max)
                        * ms[1].n * ms[2].n * ms[3].n * ms[4].n * ms[5].n,
                     2 * ms[1].d * ms[2].d * ms[3].d * ms[4].d * ms[5].d)
        spread == pricingRules.range_spread_pct
        annualMin == RoundDiv(annualPremium * (100 - spread), 100)
        annualMax == RoundDiv(annualPremium * (100 + spread), 100)
    IN  [isNull |-> FALSE,
         premium_range_annual |-> [min |-> Num(annualMin), max |-> Num(annualMax)],
         premium_range_monthly |->
            [min |-> Num(RoundDiv(annualMin * 105, 1200)),
             max |-> Num(RoundDiv(annualMax * 105, 1200))],
         excess_options |->
            [i \in DOMAIN pricingRules.excess_options |->
                LET opt == pricingRules.excess_options[i]
                    discountedAnnual ==
                        RoundDiv(annualPremium * (100 - opt.discount_pct), 100)
                IN  [amount |-> opt.amount,
                     label |-> opt.label,
                     annual_premium |-> Num(discountedAnnual),
                     monthly_premium |->
                        Num(RoundDiv(discountedAnnual * 105, 1200))]],
         vehicle |-> [make |-> input.vehicle_make,
                      model |-> input.vehicle_model,
                      year |-> input.vehicle_year,
                      category |-> category,
                      estimated_value |-> estimatedValue],
         risk_zone |-> riskZone]

\* Math.round(x * n / d) for a scraped amount x in cents: whole dollars, NaN
\* when x is not a number
RoundScaled(x, n, d) ==
    IF x.k = "number" THEN Num(RoundDiv(x.v * n, 100 * d)) ELSE NaNNum

\* the mutant of the test: success alone
LiveUsableOnSuccess(scraped) == scraped.success

\* if (scraped.success && scraped.annual_premium) (part_003 55)
LiveUsable(scraped) == scraped.success /\ Truthy(scraped.annual_premium)

\* the overrides of part_003 57-77 applied to the baseline quote
LiveQuote(quote, scraped) ==
    LET realAnnual == scraped.annual_premium
        \* scraped.monthly_premium || Math.round((realAnnual / 12) * 1.05)
        realMonthly ==
            IF Truthy(scraped.monthly_premium) THEN scraped.monthly_premium
            ELSE IF realAnnual.k = "number"
                 THEN Num(100 * RoundDiv(realAnnual.v * 105, 120000))
                 ELSE NaNNum
        discounts == <<0, 3, 7, 12>>
    IN  [quote EXCEPT
            !.premium_range_annual =
                [min |-> RoundScaled(realAnnual, 95, 100),
                 max |-> RoundScaled(realAnnual, 105, 100)],
            !.premium_range_monthly =
                [min |-> RoundScaled(realMonthly, 95, 100),
                 max |-> RoundScaled(realMonthly, 105, 100)],
            !.excess_options =
                [i \in DOMAIN quote.excess_options |->
                    LET discounted ==
                            IF i \in DOMAIN discounts
                            THEN RoundScaled(realAnnual, 100 - discounts[i], 100)
                            ELSE NaNNum
                    IN  [quote.excess_options[i] EXCEPT
                            !.annual_premium = discounted,
                            !.monthly_premium =
                                IF discounted.k = "number"
                                THEN Num(RoundDiv(discounted.v * 105, 1200))
                                ELSE NaNNum]]]

\* getMotorQuoteSchema (part_003 8-28)
IsString(x) == x.k = "string"
IsIntBetween(x, lo, hi) == x.k = "number" /\ x.v >= lo /\ x.v <= hi

\* the mutant of the postcode pattern: any four digits
PostcodeFourDigits(x) ==
    /\ IsString(x)
    /\ Len(x.v) = 4
    /\ \A i \in 1..4 : x.v[i] \in DigitChars

\* /^3\d{3}$/ (part_003 14)
PostcodeOk(x) ==
    /\ IsString(x)
    /\ Len(x.v) = 4
    /\ x.v[1] = "3"
    /\ \A i \in 2..4 : x.v[i] \in DigitChars

\* driver_age: z.number().int().min(17).max(99) (part_003 16)
MinDriverAge == 17
MaxDriverAge == 99
DriverAgeOk(x) == IsIntBetween(x, MinDriverAge, MaxDriverAge)

\* .default(0) and .default("driveway") (part_003 22, 26)
WithDefaults(args) ==
    [args EXCEPT
        !.claims_last_5_years = IF @.k = "undefined" THEN Num(0) ELSE @,
        !.parking_type = IF @.k = "undefined" THEN Str("driveway") ELSE @]

SchemaOk(args) ==
    LET a == WithDefaults(args) IN
    /\ IsString(a.vehicle_make)
    /\ IsString(a.vehicle_model)
    /\ IsIntBetween(a.vehicle_year, 1990, 2026)
    /\ PostcodeOk(a.postcode)
    /\ DriverAgeOk(a.driver_age)
    /\ IsIntBetween(a.claims_last_5_years, 0, 5)
    /\ IsString(a.parking_type)
    /\ a.parking_type.v \in {"garage", "carport", "street", "driveway"}

\* quoteInput (part_003 36-44): the parsed parameters as plain values
quoteInput(args) ==
    LET a == WithDefaults(args) IN
    [vehicle_make |-> a.vehicle_make.v,
     vehicle_model |-> a.vehicle_model.v,
     vehicle_year |-> a.vehicle_year.v,
     postcode |-> a.postcode.v,
     driver_age |-> a.driver_age.v,
     claims_last_5_years |-> a.claims_last_5_years.v,
     parking_type |-> a.parking_type.v]

\* the arguments of the calls that are tried
ToolMakes == {<<"b", "m", "w">>, <<"M", "a", "z", "d", "a">>,
              <<"R", "i", "v", "i", "a", "n">>}
ToolModels == {<<"x", "5">>, <<"3", "-", "s", "e", "r", "i", "e", "s">>,
               <<"c", "x", " ", "5">>, <<"R", "1", "S">>}
ToolYears == {Num(1989), Num(2024), Num(2026)}
ToolPostcodes == {Str(<<"3", "0", "0", "0">>), Str(<<"3", "3", "5", "0">>),
                  Str(<<"2", "0", "0", "0">>), Str(<<"3", "0", "0">>),
                  Str(<<"3", "0", "0", "0", "0">>), Str(<<"3", "a", "0", "0">>),
                  Num(3000), UndefStr}
ToolAges == {Num(16), Num(17), Num(45), Num(99), Num(100), NaNNum, UndefNum}
ToolClaims == {UndefNum, Num(2)}

\* what scrapeRacvQuote (manual mode) hands back to the tool: the result of
\* a final page, or the result of its catch block
ToolPages == {<<A_1200, PerYear>>, <<A_1200, PerYear, A_45, PerMonth>>,
              <<A_45, PerMonth>>, <<YourQuote>>}
ScrapeOutcomes == {ManualOutcome(t) : t \in ToolPages} \cup {CatchResult}

InitTool ==
    /\ mode = "manual"
    /\ InitFlow
    /\ browser = 0
    /\ engines = <<>>
    /\ gb = [c \in Callers |-> [at |-> "idle", e |-> 0]]
    /\ shotFile = NoShot
    /\ sel = NoSel
    /\ transports = [s \in {} |-> 0]
    /\ http = [down |-> "idle"]
    /\ \E mk \in ToolMakes, md \in ToolModels, y \in ToolYears,
          p \in ToolPostcodes, a \in ToolAges, c \in ToolClaims,
          live \in BOOLEAN :
          tool = [at |-> "received",
                  args |-> [vehicle_make |-> Str(mk),
                            vehicle_model |-> Str(md),
                            vehicle_year |-> y,
                            postcode |-> p,
                            driver_age |-> a,
                            claims_last_5_years |-> c,
                            parking_type |-> UndefStr],
                  USE_LIVE_SCRAPER |-> live,
                  currentYear |-> 2026,
                  quote |-> NoQuote,
                  scraped |-> NoResult,
                  liveSource |-> FALSE,
                  calculated |-> 0,
                  scraped_calls |-> 0,
                  response |-> [sent |-> FALSE]]

\* the arguments are parsed against the schema before the handler is called
\* (server.tool(name, description, getMotorQuoteSchema, handler), 31-35)
ToolValidate ==
    /\ tool.at = "received"
    /\ IF SchemaOk(tool.args)
       THEN tool' = [tool EXCEPT !.at = "handler"]
       ELSE tool' = [tool EXCEPT !.at = "responded",
                                 !.response = [sent |-> TRUE, isError |-> TRUE,
                                               data |-> NoQuote,
                                               liveSource |-> FALSE]]
    /\ UNCHANGED <<flowVars, browserVars, sel, transports, http>>

\* const quote = calculateQuote(quoteInput); let liveSource = false (36-50)
ToolCalculate ==
    /\ tool.at = "handler"
    /\ tool' = [tool EXCEPT
                  !.quote = calculateQuote(quoteInput(tool.args), tool.currentYear),
                  !.calculated = @ + 1,
                  !.liveSource = FALSE,
                  !.at = IF tool.USE_LIVE_SCRAPER THEN "scrape" ELSE "respond"]
    /\ UNCHANGED <<flowVars, browserVars, sel, transports, http>>

\* try { scraped = await scrapeRacvQuote(quoteInput); ... } catch { } (52-85)
ToolScrape ==
    /\ tool.at = "scrape"
    /\ \/ \E scraped \in ScrapeOutcomes :
             tool' = [tool EXCEPT
                        !.scraped = scraped,
                        !.scraped_calls = @ + 1,
                        !.quote = IF LiveUsable(scraped)
                                  THEN LiveQuote(@, scraped) ELSE @,
                        !.liveSource = LiveUsable(scraped),
                        !.at = "respond"]
       \/ \* the call rejects: caught and logged
          tool' = [tool EXCEPT !.scraped = Rejection,
                               !.scraped_calls = @ + 1,
                               !.at = "respond"]
    /\ UNCHANGED <<flowVars, browserVars, sel, transports, http>>

\* sourceNote, textSummary and the return statement (88-124)
ToolRespond ==
    /\ tool.at = "respond"
    /\ tool' = [tool EXCEPT !.at = "responded",
                            !.response = [sent |-> TRUE, isError |-> FALSE,
                                          data |-> tool.quote,
                                          liveSource |-> tool.liveSource]]
    /\ UNCHANGED <<flowVars, browserVars, sel, transports, http>>

NextTool ==
    \/ ToolValidate
    \/ ToolCalculate
    \/ ToolScrape
    \/ ToolRespond

SpecTool == InitTool /\ [][NextTool]_vars

-----------------------------------------------------------------------------
(* The HTTP server (src/src/server.ts): the registry of transports and the  *)
(* POST, GET and DELETE handlers of /mcp.  A handler runs without           *)
(* interruption up to its next await; session ids are fresh values (the     *)
(* n-th id generated is n).  What the transport of the SDK does with a      *)
(* request it is handed is the environment: it initializes a session on an  *)
(* initialize request, closes itself on DELETE, and answers.                *)

\* requests received in one run of the server
MaxRequests == 3

\* req.headers["mcp-session-id"]: absent, the empty string, a session id, or
\* the name of a property every object inherits (such as "constructor")
NoHdr == [k |-> "undefined", v |-> 0]
EmptyHdr == [k |-> "empty", v |-> 0]
InheritedHdr == [k |-> "inherited", v |-> 0]
SidHdr(n) == [k |-> "sid", v |-> n]

\* truthiness of the header value
HdrTruthy(hdr) == hdr.k \in {"sid", "inherited"}

\* transports[sessionId] on the plain object that is the registry
Lookup(reg, hdr) ==
    IF hdr.k = "sid" /\ hdr.v \in DOMAIN reg
    THEN [k |-> "transport", t |-> reg[hdr.v]]
    ELSE IF hdr.k = "inherited" THEN [k |-> "inherited", t |-> 0]
    ELSE [k |-> "undefined", t |-> 0]

isInitializeRequest(body) == body = "initialize"

\* else if (!sessionId && isInitializeRequest(req.body)) (96)
MayCreate(hdr, body) == ~HdrTruthy(hdr) /\ isInitializeRequest(body)

\* the mutant of the callback: the entry is filed under the transport's
\* number instead of its session id
onsessioninitializedByNumber(reg, sid, t) ==
    [s \in DOMAIN reg \cup {t} |-> IF s = t THEN t ELSE reg[s]]

\* onsessioninitialized: transports[sid] = transport (99-102)
onsessioninitialized(reg, sid, t) ==
    [s \in DOMAIN reg \cup {sid} |-> IF s = sid THEN t ELSE reg[s]]

\* the mutant of the close handler: the entry stays
oncloseKeepsEntry(reg, sid) == reg

\* transport.onclose: if (sid && transports[sid]) delete transports[sid]
\* (105-111); sid = 0 stands for an undefined sessionId
onclose(reg, sid) ==
    IF sid # 0 /\ sid \in DOMAIN reg
    THEN [s \in DOMAIN reg \ {sid} |-> reg[s]]
    ELSE reg

NoTransports == [s \in {} |-> 0]

InitHttp ==
    [insts |-> <<>>,      \* the transports created so far
     reqs |-> <<>>,       \* the requests received so far, in order of arrival
     nextSid |-> 0,       \* session ids generated so far
     deleted |-> {},      \* sessions ended by a completed DELETE
     down |-> "up",       \* "up" | "closing" | "stalled" | "exited"
     pending |-> <<>>]    \* keys the shutdown loop has still to visit

Request(method, hdr, body, at, target, status, code) ==
    [method |-> method, hdr |-> hdr, body |-> body, at |-> at,
     target |-> target, status |-> status, code |-> code,
     \* the header names a session that a completed DELETE had already ended
     late |-> hdr.k = "sid" /\ hdr.v \in http.deleted]

Headers == {NoHdr, EmptyHdr, InheritedHdr} \cup
           {SidHdr(n) : n \in 1..(http.nextSid + 1)}

Accepting == http.down # "exited" /\ Len(http.reqs) < MaxRequests

\* how a rejection of an async route handler that has no try/catch ends:
\* the framework answers 500, or nothing answers and the process goes on,
\* or the unhandled rejection ends the process
Unhandled(method, hdr) ==
    \/ /\ http' = [http EXCEPT !.reqs = Append(@,
                      Request(method, hdr, "none", "answered", 0, 500, 0))]
    \/ /\ http' = [http EXCEPT !.reqs = Append(@,
                      Request(method, hdr, "none", "hung", 0, 0, 0))]
    \/ /\ http' = [http EXCEPT !.reqs = Append(@,
                      Request(method, hdr, "none", "hung", 0, 0, 0)),
                               !.down = "exited"]

\* app.post("/mcp") up to its first await (88-129)
PostMcp ==
    /\ Accepting
    /\ \E hdr \in Headers, body \in {"initialize", "other"} :
          LET entry == Lookup(transports, hdr) IN
          IF HdrTruthy(hdr) /\ entry.k # "undefined"
          THEN IF entry.k = "transport"
               THEN http' = [http EXCEPT !.reqs = Append(@,
                        Request("POST", hdr, body, "dispatch", entry.t, 0, 0))]
               ELSE \* handleRequest is not a function: caught, 500 (130-138)
                    http' = [http EXCEPT !.reqs = Append(@,
                        Request("POST", hdr, body, "answered", 0, 500, -32603))]
          ELSE IF MayCreate(hdr, body)
          THEN http' = [http EXCEPT
                  !.insts = Append(@, [sessionId |-> 0, closed |-> FALSE,
                                       hdr |-> hdr, body |-> body]),
                  !.reqs = Append(@,
                      Request("POST", hdr, body, "connect",
                              Len(http.insts) + 1, 0, 0))]
          ELSE http' = [http EXCEPT !.reqs = Append(@,
                      Request("POST", hdr, body, "answered", 0, 400, -32000))]
    /\ UNCHANGED <<flowVars, browserVars, sel, tool, transports>>

\* app.get("/mcp") and app.delete("/mcp") up to their await (143-168)
GetOrDeleteMcp(method) ==
    /\ Accepting
    /\ \E hdr \in Headers :
          LET entry == Lookup(transports, hdr) IN
          IF ~HdrTruthy(hdr) \/ entry.k = "undefined"
          THEN http' = [http EXCEPT !.reqs = Append(@,
                      Request(method, hdr, "none", "answered", 0, 400, -32000))]
          ELSE IF entry.k = "transport"
          THEN http' = [http EXCEPT !.reqs = Append(@,
                      Request(method, hdr, "none", "dispatch", entry.t, 0, 0))]
          ELSE Unhandled(method, hdr)
    /\ UNCHANGED <<flowVars, browserVars, sel, tool, transports>>

Answer(i, status, code) ==
    [http EXCEPT !.reqs[i].at = "answered", !.reqs[i].status = status,
                 !.reqs[i].code = code]

\* await server.connect(transport) (113-114)
Connect ==
    /\ http.down # "exited"
    /\ \E i \in DOMAIN http.reqs :
          /\ http.reqs[i].at = "connect"
          /\ \/ http' = [http EXCEPT !.reqs[i].at = "handle"]
             \/ http' = Answer(i, 500, -32603)
    /\ UNCHANGED <<flowVars, browserVars, sel, tool, transports>>

\* await transport.handleRequest(req, res, req.body) on the new transport
\* (115): the transport generates its session id and calls
\* onsessioninitialized, or turns the request down, or the call rejects
HandleInitialize ==
    /\ http.down # "exited"
    /\ \E i \in DOMAIN http.reqs :
          /\ http.reqs[i].at = "handle"
          /\ LET t == http.reqs[i].target
                 sid == http.nextSid + 1
             IN  \/ /\ http' = [Answer(i, 200, 0) EXCEPT
                                  !.insts[t].sessionId = sid,
                                  !.nextSid = sid]
                    /\ transports' = onsessioninitialized(transports, sid, t)
                 \/ /\ http' = Answer(i, 406, 0)
                    /\ transports' = transports
                 \/ /\ http' = Answer(i, 500, -32603)
                    /\ transports' = transports
    /\ UNCHANGED <<flowVars, browserVars, sel, tool>>

\* await transport.handleRequest(...) on a registered transport (129, 153,
\* 167): a DELETE makes the transport close itself, which runs onclose
Dispatch ==
    /\ http.down # "exited"
    /\ \E i \in DOMAIN http.reqs :
          /\ http.reqs[i].at = "dispatch"
          /\ LET t == http.reqs[i].target
                 sid == http.insts[t].sessionId
             IN  IF http.reqs[i].method = "DELETE"
                 THEN /\ http' = [Answer(i, 200, 0) EXCEPT
                                    !.insts[t].closed = TRUE,
                                    !.deleted = @ \cup {sid}]
                      /\ transports' = onclose(transports, sid)
                 ELSE /\ \/ http' = Answer(i, 200, 0)
                         \/ http' = Answer(i, 406, 0)
                         \/ /\ http.reqs[i].method = "POST"
                            /\ http' = Answer(i, 500, -32603)
                      /\ transports' = transports
    /\ UNCHANGED <<flowVars, browserVars, sel, tool>>

\* the keys of the registry in insertion order
RECURSIVE KeysFrom(_, _)
KeysFrom(reg, n) ==
    IF n > http.nextSid THEN <<>>
    ELSE IF n \in DOMAIN reg THEN <<n>> \o KeysFrom(reg, n + 1)
    ELSE KeysFrom(reg, n + 1)

\* SIGINT / SIGTERM: for (const sid of Object.keys(transports)) (186-188)
ShutdownStart ==
    /\ http.down = "up"
    /\ http' = [http EXCEPT !.down = "closing",
                            !.pending = KeysFrom(transports, 1)]
    /\ UNCHANGED <<flowVars, browserVars, sel, tool, transports>>

\* one turn of the loop, await transports[sid].close(); delete
\* transports[sid] (189-190), or process.exit(0) after the last (192); a key
\* whose entry has gone in the meantime makes the handler reject
ShutdownStep ==
    /\ http.down = "closing"
    /\ IF http.pending = <<>>
       THEN /\ http' = [http EXCEPT !.down = "exited"]
            /\ transports' = transports
       ELSE LET sid == Head(http.pending) IN
            IF sid \in DOMAIN transports
            THEN /\ http' = [http EXCEPT
                               !.insts[transports[sid]].closed = TRUE,
                               !.pending = Tail(@)]
                 /\ transports' = onclose(transports, sid)
            ELSE /\ \/ http' = [http EXCEPT !.down = "exited"]
                    \/ http' = [http EXCEPT !.down = "stalled"]
                 /\ transports' = transports
    /\ UNCHANGED <<flowVars, browserVars, sel, tool>>

InitServer ==
    /\ mode = "rego"
    /\ InitFlow
    /\ browser = 0
    /\ engines = <<>>
    /\ gb = [c \in Callers |-> [at |-> "idle", e |-> 0]]
    /\ shotFile = NoShot
    /\ sel = NoSel
    /\ tool = NoTool
    /\ transports = NoTransports
    /\ http = InitHttp

NextServer ==
    \/ PostMcp
    \/ GetOrDeleteMcp("GET")
    \/ GetOrDeleteMcp("DELETE")
    \/ Connect
    \/ HandleInitialize
    \/ Dispatch
    \/ ShutdownStart
    \/ ShutdownStep

SpecServer == InitServer /\ [][NextServer]_vars

-----------------------------------------------------------------------------
(* Properties of one call (specification Spec) *)

Done == pc = "done"

IsSet(x) == x.k # "undefined"

\* a string field that is set and is not the empty string
NonEmptyStr(x) == x.k = "string" /\ \E i \in 1..Len(x.v) : x.v[i] # ""

Positive(x) == x.k = "number" /\ x.v > 0

StepTags == {Str(<<"rego_lookup">>), Str(<<"your_car">>), Str(<<"about_you">>),
             Str(<<"quote_result">>)}

\* C1: every call ends by resolving with a structured result (a success flag
\* and the optional fields), whatever step faulted: the promise is never
\* rejected, and the flow cannot stop anywhere but at its delivery.
C1_AlwaysStructuredResult ==
    /\ Done => /\ result.delivered
               /\ ~result.rejected
               /\ result.success \in BOOLEAN
    /\ ret.delivered => ~ret.rejected
    /\ ~Done => ENABLED Next

\* a call whose fault was raised with the page open, whose close of the page
\* failed as well, and which still delivered a result
C1_Witness ==
    /\ Done
    /\ thrown = "poll failed"
    /\ page = "closeFailed"
    /\ result.delivered /\ ~result.success

C3_SuccessHasPositivePremium ==
    (Done /\ result.success) =>
        Positive(result.annual_premium) \/ Positive(result.monthly_premium)

\* a rego-mode success that has no annual premium and rests on the monthly
\* premium alone
C3_Witness ==
    /\ Done
    /\ mode = "rego"
    /\ result.success
    /\ ~Positive(result.annual_premium)
    /\ Positive(result.monthly_premium)

\* C4: when the result is delivered, close() has been called on the page and
\* on the browsing context the call opened (resolved or rejected, the
\* rejection being swallowed), on every exit path; the delivered result is the
\* value of the return statement, and it is the fault handler's result only
\* when a step of the try block faulted, never because a close failed.
C4_ClosedBeforeDelivery ==
    Done =>
        /\ page \in {"none", "closed", "closeFailed"}
        /\ context \in {"none", "closed", "closeFailed"}
        /\ result = ret
        /\ (result.error = Str(ScraperError(thrown))) <=> (thrown # "none")

\* a success delivered although closing the page and the context failed
C4_Witness ==
    /\ Done
    /\ page = "closeFailed"
    /\ context = "closeFailed"
    /\ result.success

\* C6 as claimed: in one rego-mode call "back to form" is clicked at most
\* once and the form is re-submitted at most once.
C6_AtMostOneRecovery == h.backClicks <= 1 /\ h.resubmits <= 1

\* the resolution stage of rego mode, from the first step of an attempt on
InAttempt == pc \in {"enterRego", "clickFind", "awaitResponse", "poll", "grace",
                     "checkFallback", "fb_year", "fb_make", "fb_model",
                     "fb_body", "fb_search", "fb_check"}

\* C7 as claimed: at most 3 attempts are made, no attempt follows one that
\* confirmed a vehicle, and a call whose 3 attempts all completed without a
\* confirmed vehicle returns success = false, step_reached = rego_lookup, the
\* not-found error and a snapshot reference, without entering the applicant
\* stage.
C7_NotFoundAfterThreeAttempts ==
    /\ InAttempt => attempt \in 1..MaxAttempts /\ StrEmpty(vehicleDesc)
    /\ (Done /\ h.unresolved) =>
          /\ ~result.success
          /\ result.step_reached = Str(<<"rego_lookup">>)
          /\ result.error = Str(NotFoundError)
          /\ IsSet(result.screenshot_path)
          /\ ~h.applicant

\* C8 as claimed: a call in which the direct channel showed the not-found
\* message (and never confirmed a vehicle) and the backend returned a
\* well-formed SUCCESS record runs the manual fallback and obtains a vehicle,
\* so it does not end with step_reached = rego_lookup.
C8_FallbackAlwaysObtainsVehicle ==
    (Done /\ thrown = "none" /\ h.sawNotFound /\ h.goodReturned /\ ~h.direct) =>
        /\ h.fallbackRan
        /\ ~StrEmpty(vehicleDesc)
        /\ result.step_reached # Str(<<"rego_lookup">>)

\* C8 as amended: an attempt runs the manual fallback exactly when its polling
\* saw the not-found message and a record is cached at the moment of the check
\* of line 753, and it runs it with that record; a vehicle reported by a call
\* that the direct channel never confirmed is the one the fallback search
\* showed (the record's description or a variant heading).
C8_FallbackRule ==
    [][ /\ (pc = "checkFallback" /\ pc' # pc) =>
              /\ (pc' = "fb_year") <=> (notFoundMsg /\ ~captured.isNull)
              /\ (pc' = "fb_year") => (cv' = captured /\ ~cv'.isNull)
        /\ (pc = "fb_check" /\ pc' = "loopExit" /\ ~StrEmpty(vehicleDesc')) =>
              vehicleDesc' \in {cv.description, UiVehicle}
      ]_vars

\* the fallback ran with the captured record and the call went on to return
\* a result carrying that record's description
C8_Witness ==
    /\ Done
    /\ h.fallbackRan
    /\ ~h.direct
    /\ h.sawNotFound
    /\ result.vehicle_description =
          Str(extractVehicleFromAuraResponse(BodyGoodA).description)

\* C9 as claimed: every attempt after the first starts with page.goto of the
\* start URL.
C9_RetryAlwaysNavigates ==
    (InAttempt /\ attempt > 1) => h.lastStart = "goto"

\* C9 as amended: every attempt after the first starts either with a click on
\* the "Search by registration" link, when that link is visible, or else with
\* page.goto of the start URL; only the first attempt uses the page as it is.
C9_RetryClicksLinkOrNavigates ==
    InAttempt =>
        /\ attempt > 1 => h.lastStart \in {"link", "goto"}
        /\ attempt = 1 => h.lastStart = "asis"

\* a third attempt that started with the link click
C9_Witness ==
    /\ pc = "poll"
    /\ attempt = 3
    /\ h.lastStart = "link"

\* C10 as claimed: every result returned after the final page was read has
\* raw_amounts set and non-empty.
C10_RawAmountsNonEmpty ==
    (Done /\ h.finalReached) =>
        result.raw_amounts.k = "array" /\ Len(result.raw_amounts.v) > 0

\* C10 as amended: every result that rego mode returns from its extraction
\* stage (success, validation failure or extraction failure) has raw_amounts
\* set to the currency amounts of the final page text, in page order; the list
\* is non-empty when success = true and may be empty on a failure.  The fault
\* handler's result and every manual-mode result carry no raw_amounts.
C10_RawAmountsAreThePageAmounts ==
    (Done /\ h.finalReached) =>
        IF mode = "rego" /\ thrown = "none"
        THEN /\ result.raw_amounts.k = "array"
             /\ result.raw_amounts.v =
                   SelectSeq(h.finalText, LAMBDA tok : tok.t = "amt")
             /\ result.success => Len(result.raw_amounts.v) > 0
        ELSE ~IsSet(result.raw_amounts)

\* a failure returned from the extraction stage of rego mode whose page held
\* no currency amount: raw_amounts is the empty list
C10_Witness ==
    /\ Done
    /\ mode = "rego"
    /\ h.finalReached
    /\ ~result.success
    /\ result.raw_amounts = Arr(<<>>)

-----------------------------------------------------------------------------
(* Properties of the shared engine handle (specification SpecBrowser) *)

\* C5 as claimed: at most one engine launched by the module is live at any
\* time, whatever the interleaving of the calls.
C5_AtMostOneLiveEngine == Cardinality(LiveEngines) <= 1

-----------------------------------------------------------------------------
(* The cached backend record (captured.vehicle) *)

\* the steps at which the model drops the try block's variables: the record is
\* last read inside the resolution loop (749) and is out of scope in catch
DropsLocals == pc \in {"loopExit", "catch"}

\* a record the handlers may store: read from a SUCCESS response, with year
\* and make
Storable(v) ==
    /\ ~v.isNull /\ v.year # "" /\ v.make # ""
    /\ \E b \in FlowBodies :
          b.state = "SUCCESS" /\ v = extractVehicleFromAuraResponse(b)

-----------------------------------------------------------------------------
(* The guard of the manual fallback *)

InFallback == pc \in {"fb_year", "fb_make", "fb_model", "fb_body",
                      "fb_search", "fb_check"}

\* C33: the manual fallback is entered in an attempt only if that attempt saw
\* the explicit not-found message and a cached record exists at the check (the
\* record the fallback then uses); an attempt whose polling ended without the
\* message never enters it, and goes on to the next attempt or leaves the
\* loop, even when a valid record is cached.
C33_FallbackOnlyAfterNotFound ==
    /\ [](InFallback => (notFoundMsg /\ ~cv.isNull /\ Storable(cv)))
    /\ [][(pc = "checkFallback" /\ pc' \in {"fb_year", "attempt", "loopExit"})
             => /\ pc' = "fb_year" =>
                     (notFoundMsg /\ ~captured.isNull /\ cv' = captured)
                /\ ~notFoundMsg => pc' \in {"attempt", "loopExit"}]_vars

\* the first attempt ran out of polls with no confirmation and no not-found
\* message while a valid record was cached, and the second attempt begins
\* without the fallback ever having run
C33_Witness ==
    /\ mode = "rego" /\ pc = "attempt" /\ attempt = 2
    /\ ~captured.isNull /\ net = <<>>
    /\ ~h.sawNotFound /\ ~h.fallbackRan /\ ~h.direct

-----------------------------------------------------------------------------
(* The vehicle description of the results *)

\* steps 2 and 3 and the final page of the rego-mode flow (874-1099)
ApplicantStage == pc \in {"step2", "addressCheck", "step3", "quoteWait",
                          "quoteCheck", "final", "extract"}

\* the result is a success, or names a step from your_car onwards
PastLookup(res) ==
    /\ res.delivered
    /\ \/ res.success
       \/ res.step_reached \in {Str(<<"your_car">>), Str(<<"about_you">>),
                                Str(<<"quote_result">>)}

\* C34 as claimed: every result that is a success or has step_reached in
\* {your_car, about_you, quote_result} carries a non-empty
\* vehicle_description.
C34_PastLookupHasDescription ==
    PastLookup(result) => NonEmptyStr(result.vehicle_description)

\* C34, amended: a rego-mode call is in the applicant stage only with a
\* non-empty vehicle description, and each of its results that is a success or
\* names a step from your_car onwards carries that description; a manual-mode
\* result, success included, has no vehicle_description field.
C34_RegoPastLookupHasDescription ==
    /\ ApplicantStage => NonEmptyStr(Str(vehicleDesc))
    /\ (mode = "rego" /\ PastLookup(ret)) =>
          NonEmptyStr(ret.vehicle_description)
    /\ (mode = "rego" /\ PastLookup(result)) =>
          NonEmptyStr(result.vehicle_description)
    /\ (mode = "manual" /\ result.delivered) =>
          ~IsSet(result.vehicle_description)

\* a rego-mode call that confirmed the vehicle through the fallback with the
\* cached record returned the address error of step 2 with that description
C34_Witness ==
    /\ Done /\ mode = "rego" /\ h.fallbackRan /\ ~h.direct
    /\ ~result.success
    /\ result.step_reached = Str(<<"your_car">>)
    /\ result.vehicle_description =
          Str(extractVehicleFromAuraResponse(BodyGoodA).description)

\* a caller is between the test of getBrowser and the end of its launch
Acquiring == \E c \in Callers : gb[c].at \in {"check", "launching"}

\* C31 as claimed: after any interleaving of getBrowser and closeBrowser,
\* every live engine launched by the module is the one the module-level handle
\* refers to, and a closeBrowser that completes while no caller is acquiring
\* leaves the handle null.
C31_LiveEngineIsTheHandle ==
    /\ [](\A e \in LiveEngines : browser = e)
    /\ [][(/\ ~Acquiring
           /\ \E c \in Callers : gb[c].at = "closing" /\ gb'[c].at = "idle")
              => browser' = 0]_vars

-----------------------------------------------------------------------------
(* Properties of one call, continued (specification Spec) *)

\* a return statement of the try block was reached after the final page text
\* was read
ReturnedFromFinalPage == Done /\ thrown = "none" /\ h.finalReached

\* some visible error text of the final page is not blank
ErrorsShown == \E i \in 1..Len(h.finalErrors) : h.finalErrors[i] # " "

\* C12 as claimed: a call that read the final page and resolved neither
\* premium returns success = false with step_reached = quote_result; its error
\* is the validation-error text when error texts are visible and the generic
\* could-not-extract message otherwise.
C12_UnresolvedIsQuoteResult ==
    (ReturnedFromFinalPage /\ ~result.success) =>
        /\ result.step_reached = Str(<<"quote_result">>)
        /\ result.error =
              IF Len(h.finalErrors) > 0
              THEN Str(<<"Form validation errors:">> \o
                       SelectSeq(h.finalErrors, LAMBDA e : e # " "))
              ELSE Str(ExtractError)

\* C12 as amended: a rego-mode call that read the final page and resolved
\* neither premium returns success = false; when at least one error element is
\* visible its step_reached is about_you and its error is "Form validation
\* errors:" followed by the non-blank error texts, otherwise its step_reached
\* is quote_result and its error is the generic could-not-extract message.  A
\* manual-mode call in that case returns the manual could-not-extract message
\* and no step_reached, whether or not errors are visible.
C12_UnresolvedByErrorsAndMode ==
    (ReturnedFromFinalPage /\ ~result.success) =>
        IF mode = "rego"
        THEN IF Len(h.finalErrors) > 0
             THEN /\ result.step_reached = Str(<<"about_you">>)
                  /\ result.error =
                        Str(<<"Form validation errors:">> \o
                            SelectSeq(h.finalErrors, LAMBDA e : e # " "))
             ELSE /\ result.step_reached = Str(<<"quote_result">>)
                  /\ result.error = Str(ExtractError)
        ELSE /\ ~IsSet(result.step_reached)
             /\ result.error = Str(ManualExtractError)

\* a rego-mode failure whose only visible error element is blank: the stage
\* tag is about_you and the message is the bare prefix
C12_Witness ==
    /\ ReturnedFromFinalPage
    /\ mode = "rego"
    /\ h.finalErrors = <<" ">>
    /\ ~result.success
    /\ result.step_reached = Str(<<"about_you">>)
    /\ result.error = Str(<<"Form validation errors:">>)

\* C13 as claimed: a rego-mode call on whose final page a validation error
\* text is visible returns success = false with step_reached set and the error
\* texts joined into error, and has clicked "back to form" or re-submitted
\* the form at no time.
C13_ValidationErrorTerminates ==
    (ReturnedFromFinalPage /\ mode = "rego" /\ ErrorsShown) =>
        /\ ~result.success
        /\ IsSet(result.step_reached)
        /\ result.error =
              Str(<<"Form validation errors:">> \o
                  SelectSeq(h.finalErrors, LAMBDA e : e # " "))
        /\ h.backClicks = 0
        /\ h.resubmits = 0

\* C14 as claimed: the flow does not advance to the about-you stage while an
\* error text of any kind is visible after the vehicle-details step; a call
\* that saw one there returns success = false with step_reached = your_car,
\* and a call that sees one after the applicant step returns success = false
\* with step_reached = about_you.
C14_NoAdvancePastErrors ==
    /\ pc = "step3" => h.step2Errors = {}
    /\ (Done /\ thrown = "none" /\ h.step2Errors # {}) =>
          ~result.success /\ result.step_reached = Str(<<"your_car">>)
    /\ (ReturnedFromFinalPage /\ mode = "rego" /\ ErrorsShown) =>
          ~result.success /\ result.step_reached = Str(<<"about_you">>)

\* C15: once a visible error text after the vehicle-details step mentions the
\* address, the about-you fields are never started and the call only runs its
\* finally block; it returns success = false with step_reached = your_car, the
\* vehicle description that step 1 resolved and the address error message.
C15_AddressErrorStopsAtYourCar ==
    ("address" \in h.step2Errors) =>
        /\ ~h.aboutYou
        /\ pc \in {"finally", "finallyContext", "done"}
        /\ thrown = "none"
        /\ ret = ResultOf(FALSE,
                    [vehicle_description |-> Str(vehicleDesc),
                     error |-> Str(<<"Could not validate the address. Please provide a valid Victorian street address.">>),
                     step_reached |-> Str(<<"your_car">>)])
        /\ ~StrEmpty(vehicleDesc)
        /\ Done => result = ret

\* an address error shown together with another error text, delivered
C15_Witness ==
    /\ Done
    /\ h.step2Errors = {"address", "other"}
    /\ result.step_reached = Str(<<"your_car">>)
    /\ ~h.aboutYou

\* the result of the fault handler without its free-text message
Shape(r) == [r EXCEPT !.error = UndefStr]

\* C16 as claimed: a call whose engine launch failed does not launch again,
\* and its result differs from every form-level failure and from the result
\* of every other unexpected fault by more than the text of the message.
C16_LaunchFailureIsDistinct ==
    /\ (Done /\ thrown = "launch failed") =>
          /\ gb[Scrape].at = "threw"
          /\ engines = <<>>
          /\ ~result.success
          /\ ~IsSet(result.step_reached)
    /\ (Done /\ thrown \notin {"none", "launch failed"}) =>
          Shape(result) #
             Shape(ResultOf(FALSE,
                [source |-> IF mode = "rego" THEN UndefStr ELSE Str(<<"mock">>),
                 screenshot_path |-> Str(<<"/tmp/racv-error.png">>)]))

\* C16 as amended: a call whose engine launch failed does not launch again
\* and opens no context or page; it resolves with the fault handler's result:
\* success = false, error "Scraper error: " followed by the launch error's
\* message, screenshot_path /tmp/racv-error.png (no snapshot having been
\* taken) and no step_reached.  The absence of step_reached tells it from the
\* form-level failures of rego mode; from other unexpected faults it differs
\* only in the message text.
C16_LaunchFailureIsGenericFault ==
    (Done /\ thrown = "launch failed") =>
        /\ gb[Scrape].at = "threw"
        /\ engines = <<>>
        /\ page = "none"
        /\ context = "none"
        /\ h.errorShot = "none"
        /\ result = ResultOf(FALSE,
              [source |-> IF mode = "rego" THEN UndefStr ELSE Str(<<"mock">>),
               error |-> Str(<<"Scraper error:", "launch failed">>),
               screenshot_path |-> Str(<<"/tmp/racv-error.png">>)])

\* the launch failed with the handle null, and the call has resolved
C16_Witness ==
    /\ Done
    /\ thrown = "launch failed"
    /\ browser = 0
    /\ result.delivered
    /\ ~result.success

\* C20 as claimed: every result delivered after the final page text was read
\* carries screenshot_path, and the file it names is the snapshot taken at the
\* final page before the text was read.
C20_FinalSnapshotReferenced ==
    (Done /\ h.finalReached) =>
        /\ shotFile = ShotBy(Scrape)
        /\ result.screenshot_path =
              IF mode = "rego" THEN Str(<<"/tmp/racv-quote-result.png">>)
              ELSE Str(<<"/tmp/racv-result.png">>)

\* C20 as amended: every result returned by a return statement of the
\* extraction stage names the final-stage snapshot (/tmp/racv-quote-result.png
\* in rego mode, /tmp/racv-result.png in manual mode), which was saved before
\* the page text was read.  The result of the fault handler, also when the
\* fault came after the final page was read, names /tmp/racv-error.png
\* instead, a snapshot attempted inside the handler whose failure is ignored,
\* so the file need not exist.
C20_SnapshotByExit ==
    (Done /\ h.finalReached) =>
        /\ shotFile = ShotBy(Scrape)
        /\ IF thrown = "none"
           THEN /\ result.screenshot_path =
                      IF mode = "rego" THEN Str(<<"/tmp/racv-quote-result.png">>)
                      ELSE Str(<<"/tmp/racv-result.png">>)
                /\ h.errorShot = "none"
           ELSE /\ result.screenshot_path = Str(<<"/tmp/racv-error.png">>)
                /\ h.errorShot \in {"captured", "failed"}

\* a fault after the final page was read, with the handler's snapshot failing
C20_Witness ==
    /\ Done
    /\ h.finalReached
    /\ thrown = "allTextContents failed"
    /\ h.errorShot = "failed"
    /\ result.screenshot_path = Str(<<"/tmp/racv-error.png">>)

\* the cascading steps of both modes and their place in the chain
SelectSteps == {"fb_year", "fb_make", "fb_model", "fb_body",
                "m_year", "m_make", "m_model", "m_body"}
Rank(step) ==
    CASE step \in {"fb_year", "m_year"} -> 1
      [] step \in {"fb_make", "m_make"} -> 2
      [] step \in {"fb_model", "m_model"} -> 3
      [] step \in {"fb_body", "m_body"} -> 4
      [] OTHER -> 5
Committed(step) == \E i \in DOMAIN h.selected : h.selected[i] = step

\* C22 as claimed: a step reads its options only after the step before it
\* has committed a selection.
C22_ReadsAfterPreviousCommitted ==
    /\ pc \in {"fb_make", "m_make"} =>
          (Committed("fb_year") \/ Committed("m_year"))
    /\ pc \in {"fb_model", "m_model"} =>
          (Committed("fb_make") \/ Committed("m_make"))
    /\ pc \in {"fb_body", "m_body"} =>
          (Committed("fb_model") \/ Committed("m_model"))

\* C22: the selections are committed in the order year, make, model, body
\* type, and while a step reads its options every selection committed so far
\* belongs to an earlier step; a step that selected nothing (no matching
\* option, a select that is not visible, the rego year select failing) does
\* not hold the later steps back, except that in manual mode the year is
\* always committed before the make is read.
C22_CascadeInOrder ==
    /\ \A i, j \in DOMAIN h.selected :
          i < j => Rank(h.selected[i]) < Rank(h.selected[j])
    /\ pc \in SelectSteps =>
          \A i \in DOMAIN h.selected : Rank(h.selected[i]) < Rank(pc)
    /\ pc \in {"m_make", "m_model", "m_body"} => Committed("m_year")

\* all four fallback selections were committed, in order, and the search is
\* about to be clicked
C22_Witness ==
    /\ pc = "fb_search"
    /\ h.selected = <<"fb_year", "fb_make", "fb_model", "fb_body">>

\* C23: every call eventually returns (specification SpecLive): the
\* resolution loop is in one of at most 3 attempts, an attempt makes at most
\* 25 polls, the quote-wait loop makes at most 2 iterations, and the call
\* reaches its end.
C23_CallEventuallyReturns ==
    /\ [](/\ InAttempt => attempt \in 1..MaxAttempts
          /\ wait \in 0..MaxPolls
          /\ quoteAttempt \in 0..MaxQuoteAttempts
          /\ pc = "quoteCheck" => quoteAttempt < MaxQuoteAttempts)
    /\ <>Done

\* a call returned after every one of its attempts ran out of polls: the
\* not-found message was never seen and no vehicle was confirmed
C23_Witness ==
    /\ Done
    /\ thrown = "none"
    /\ h.unresolved
    /\ ~h.sawNotFound

-----------------------------------------------------------------------------
(* Properties of the extraction stage (specification SpecExtract) *)

Extracted == pc = "x_returned"

\* the labelled rules of the mode being run, in priority order
AnnualRules  == IF mode = "rego" THEN <<1, 2>> ELSE <<1, 2, 3>>
MonthlyRules == IF mode = "rego" THEN <<3, 4>> ELSE <<4, 5>>

\* the index of the amount a labelled rule captures in the page text, 0 when
\* the rule does not match
RuleMatch(id) == IF mode = "rego" THEN RegoMatch(h.finalText, id)
                 ELSE ManualMatch(h.finalText, id)

\* the amount captured by the earliest-listed rule of `rules` that matches;
\* undefined when none matches
HighestPriority(rules) ==
    LET hits == {k \in 1..Len(rules) : RuleMatch(rules[k]) # 0} IN
    IF hits = {} THEN UndefNum
    ELSE LET k == CHOOSE a \in hits : \A b \in hits : a <= b
         IN  AmountOf(h.finalText[RuleMatch(rules[k])])

NoLabelledMatch ==
    \A k \in 1..5 : (k \in {1, 2, 3, 4} \/ mode = "manual") => RuleMatch(k) = 0

\* the first amount of the page, in page order, whose value (in cents) lies
\* between lo and hi; loIn / hiIn say whether the ends are included
FirstAmountBetween(lo, loIn, hi, hiIn) ==
    LET text == h.finalText
        ok(i) == /\ text[i].t = "amt"
                 /\ AmountOf(text[i]).k = "number"
                 /\ IF loIn THEN AmountOf(text[i]).v >= lo
                    ELSE AmountOf(text[i]).v > lo
                 /\ IF hiIn THEN AmountOf(text[i]).v <= hi
                    ELSE AmountOf(text[i]).v < hi
        idx == {i \in 1..Len(text) : ok(i)}
    IN  IF idx = {} THEN UndefNum
        ELSE AmountOf(text[CHOOSE i \in idx : \A j \in idx : i <= j])

\* the largest amount of the page whose value lies strictly between lo and hi
LargestAmountBetween(lo, hi) ==
    LET text == h.finalText
        vals == {AmountOf(text[i]).v : i \in {j \in 1..Len(text) :
                    /\ text[j].t = "amt"
                    /\ AmountOf(text[j]).k = "number"
                    /\ AmountOf(text[j]).v > lo
                    /\ AmountOf(text[j]).v < hi}}
    IN  IF vals = {} THEN UndefNum
        ELSE Num(CHOOSE n \in vals : \A m \in vals : m <= n)

\* C11 as claimed: in a successful result, a premium (annual, monthly) for
\* which some labelled rule captures a usable amount is the amount captured by
\* the earliest-listed matching rule of its kind; a later-listed rule that also
\* matches does not replace it.
C11_FirstMatchingRuleWins ==
    (Extracted /\ ret.success) =>
        /\ Truthy(HighestPriority(AnnualRules)) =>
              ret.annual_premium = HighestPriority(AnnualRules)
        /\ Truthy(HighestPriority(MonthlyRules)) =>
              ret.monthly_premium = HighestPriority(MonthlyRules)

\* C18 as claimed: when no labelled rule matches, the annual premium is the
\* first amount in page order inside the plausible annual range of the mode
\* and the monthly premium the first amount inside the monthly range.
C18_FallbackTakesFirstInRange ==
    (Extracted /\ NoLabelledMatch) =>
        /\ ret.annual_premium =
              IF mode = "rego" THEN FirstAmountBetween(30000, TRUE, 800000, TRUE)
              ELSE FirstAmountBetween(20000, FALSE, 1000000, FALSE)
        /\ ret.monthly_premium = FirstAmountBetween(2500, TRUE, 30000, FALSE)

\* C18 as amended: when no labelled rule matches, rego mode reports as annual
\* premium the first amount in page order with 300 <= n <= 8000 and as monthly
\* premium the first amount with 25 <= n < 300 (each absent when there is no
\* such amount); manual mode reports as annual premium the largest amount with
\* 200 < n < 10000, whatever its place on the page, and never infers a monthly
\* premium.
C18_FallbackByMode ==
    (Extracted /\ NoLabelledMatch) =>
        IF mode = "rego"
        THEN /\ ret.annual_premium = FirstAmountBetween(30000, TRUE, 800000, TRUE)
             /\ ret.monthly_premium = FirstAmountBetween(2500, TRUE, 30000, FALSE)
        ELSE /\ ret.annual_premium = LargestAmountBetween(20000, 1000000)
             /\ ret.monthly_premium = UndefNum

\* manual mode, no labelled rule: $650 comes first on the page and $1,200 is
\* reported as the annual premium
C18_Witness ==
    /\ Extracted
    /\ mode = "manual"
    /\ h.finalText = <<A_650, A_1200>>
    /\ ret.success
    /\ ret.annual_premium = Num(120000)
    /\ ret.monthly_premium = UndefNum

\* the first amount of the page that equals one of the fixed excess tiers
FirstTierAmount ==
    LET text == h.finalText
        idx == {i \in 1..Len(text) :
                   /\ text[i].t = "amt"
                   /\ AmountOf(text[i]).k = "number"
                   /\ AmountOf(text[i]).v \in {65000, 80000, 100000, 150000}}
    IN  IF idx = {} THEN UndefNum
        ELSE AmountOf(text[CHOOSE i \in idx : \A j \in idx : i <= j])

Labelled ==
    PremLoop(h.finalText, 1, [annual |-> UndefNum, monthly |-> UndefNum])

\* the result reports exactly what the labelled rules found, and no excess
LabelledOnly ==
    /\ ret.annual_premium = Labelled.annual
    /\ ret.monthly_premium = Labelled.monthly
    /\ ~IsSet(ret.excess_amount)

\* C35 as claimed: a result whose annual or monthly premium came from a
\* labelled rule never has excess_amount set and never has the other premium
\* filled in by the range fallback.
C35_LabelledRuleStopsFallback ==
    (Extracted /\ mode = "rego" /\ ret.success) =>
        ((\/ IsSet(Labelled.annual) /\ ret.annual_premium = Labelled.annual
          \/ IsSet(Labelled.monthly) /\ ret.monthly_premium = Labelled.monthly)
            => LabelledOnly)

\* C35, amended: the range fallback runs exactly when the labelled rules left
\* neither premium with a usable value (a number other than 0, not NaN).  A
\* successful result after a labelled rule gave a usable premium reports what
\* the labelled rules found and no excess_amount; a labelled match of "$0" or
\* of an amount without digits does not stop the fallback, which then fills in
\* the first amount of each range and the first tier amount.
C35_UsableLabelStopsFallback ==
    (Extracted /\ mode = "rego" /\ ret.success) =>
        IF Truthy(Labelled.annual) \/ Truthy(Labelled.monthly)
        THEN LabelledOnly
        ELSE /\ ret.annual_premium =
                  IF IsSet(FirstAmountBetween(30000, TRUE, 800000, TRUE))
                  THEN FirstAmountBetween(30000, TRUE, 800000, TRUE)
                  ELSE Labelled.annual
             /\ ret.monthly_premium =
                  IF IsSet(FirstAmountBetween(2500, TRUE, 30000, FALSE))
                  THEN FirstAmountBetween(2500, TRUE, 30000, FALSE)
                  ELSE Labelled.monthly
             /\ ret.excess_amount = FirstTierAmount

\* "$1,200 per year" is labelled and "$250" lies in the monthly range: the
\* result reports the annual premium alone
C35_Witness ==
    /\ Extracted
    /\ mode = "rego"
    /\ h.finalText = <<A_1200, PerYear, A_250>>
    /\ ret.success
    /\ ret.annual_premium = Num(120000)
    /\ ~IsSet(ret.monthly_premium)
    /\ ~IsSet(ret.excess_amount)

\* the place in the page text of the first amount of the annual range, and of
\* the first tier amount; 0 when there is none
FirstIndexOfAmount(Ok(_)) ==
    LET text == h.finalText
        idx == {i \in 1..Len(text) :
                   /\ text[i].t = "amt"
                   /\ AmountOf(text[i]).k = "number"
                   /\ Ok(AmountOf(text[i]).v)}
    IN  IF idx = {} THEN 0 ELSE CHOOSE i \in idx : \A j \in idx : i <= j

InAnnualRange(n) == n >= 30000 /\ n <= 800000
IsTier(n) == n \in {65000, 80000, 100000, 150000}

\* C36 as claimed: in a successful result, annual_premium and excess_amount
\* are never both taken from the same currency amount of the page.
C36_AnnualAndExcessFromDifferentAmounts ==
    (/\ Extracted /\ mode = "rego" /\ ret.success
     /\ IsSet(ret.excess_amount)
     /\ FirstIndexOfAmount(InAnnualRange) # 0
     /\ ret.annual_premium =
           AmountOf(h.finalText[FirstIndexOfAmount(InAnnualRange)])
     /\ ret.excess_amount = AmountOf(h.finalText[FirstIndexOfAmount(IsTier)]))
        => FirstIndexOfAmount(InAnnualRange) # FirstIndexOfAmount(IsTier)

-----------------------------------------------------------------------------
(* Properties of concurrent calls (specification SpecBrowser) *)

\* C17 as claimed: while a call that saved its final-stage snapshot prepares
\* the result that names it, the file at that path is the snapshot of that
\* call's own page: no other call has written it.
C17_SnapshotIsOwn ==
    \A c \in Callers : gb[c].at = "extracting" => shotFile = ShotBy(c)

-----------------------------------------------------------------------------
(* Properties of the fallback's option matching (specification SpecSelect) *)

\* an option the record's string matches: its text is not empty and, letter
\* case aside, contains the string or is contained in it
Offered(o, want) ==
    /\ o # <<>>
    /\ \/ includes(toUpperCase(o), toUpperCase(want))
       \/ includes(toUpperCase(want), toUpperCase(o))

\* C21: for make, model and body type alike, when some visible select offers
\* an option whose non-empty text contains the record's string or is
\* contained in it, the loop selects an option, and the one it selects
\* matches the string (surrounding blanks aside).
C21_MatchingOptionSelected ==
    sel.at = "done" =>
        ((\E i \in DOMAIN sel.selects : \E k \in DOMAIN sel.selects[i] :
              Offered(sel.selects[i][k], sel.want))
         => /\ sel.picked.select # 0
            /\ \E k \in DOMAIN sel.selects[sel.picked.select] :
                  LET o == sel.selects[sel.picked.select][k] IN
                  /\ trim(o) = sel.picked.label
                  /\ optionMatches(sel.field, o, sel.want))

-----------------------------------------------------------------------------
(* Properties of the review and submit stage (specification Spec) *)

\* C30: when the page text is about to be read for extraction, every
\* re-submission made after a back-to-form recovery has been followed by a
\* wait for a premium to appear.
C30_ResubmitIsWaitedFor ==
    pc = "extract" => ~h.unwaited

-----------------------------------------------------------------------------
(* Properties of the get_motor_quote tool (specification SpecTool) *)

\* what calculateQuote computes for the arguments of the call
Baseline == calculateQuote(quoteInput(tool.args), tool.currentYear)

\* the scraper was called and reported success with an annual premium
LiveReported ==
    /\ tool.scraped.delivered
    /\ ~tool.scraped.rejected
    /\ tool.scraped.success
    /\ Positive(tool.scraped.annual_premium)

\* C24: a call that passes the schema is answered with a quote.  When live
\* scraping is disabled, or the scraper returned success = false, or returned
\* no annual premium, or threw, the premium ranges and the excess options of
\* the answer are those of calculateQuote for the same input; when the
\* scraper reported success with an annual premium they are the live values
\* (the annual premium -5% / +5%, and its discounted excess tiers).
C24_MockUnlessLivePremium ==
    tool.at = "responded" /\ SchemaOk(tool.args) =>
        LET data == tool.response.data
            real == tool.scraped.annual_premium.v
        IN  /\ ~tool.response.isError
            /\ ~data.isNull
            /\ ~(tool.USE_LIVE_SCRAPER /\ LiveReported) =>
                  /\ data.premium_range_annual = Baseline.premium_range_annual
                  /\ data.premium_range_monthly = Baseline.premium_range_monthly
                  /\ data.excess_options = Baseline.excess_options
                  /\ ~tool.response.liveSource
            /\ (tool.USE_LIVE_SCRAPER /\ LiveReported) =>
                  /\ data.premium_range_annual =
                        [min |-> Num(RoundDiv(real * 95, 10000)),
                         max |-> Num(RoundDiv(real * 105, 10000))]
                  /\ data.excess_options[1].annual_premium =
                        Num(RoundDiv(real, 100))
                  /\ tool.response.liveSource

\* live scraping was enabled, the scraper threw, and the answer carries the
\* calculator's quote
C24_Witness ==
    /\ tool.at = "responded"
    /\ tool.USE_LIVE_SCRAPER
    /\ tool.scraped.delivered
    /\ tool.scraped.rejected
    /\ ~tool.response.isError
    /\ tool.response.data.premium_range_annual = Baseline.premium_range_annual

\* the entries of the vehicle table that the make and the model name: same
\* make letter case aside, same model letter case, hyphens and spaces aside
TableEntries(make, model) ==
    {e \in UNION {{[category |-> vehicles[i].models[j].category,
                    base_value |-> vehicles[i].models[j].base_value,
                    make |-> vehicles[i].make,
                    model |-> vehicles[i].models[j].model] :
                      j \in DOMAIN vehicles[i].models} : i \in DOMAIN vehicles} :
        /\ toLowerCase(e.make) = toLowerCase(make)
        /\ stripHyphensAndSpaces(toLowerCase(e.model)) =
              stripHyphensAndSpaces(toLowerCase(model))}

\* every figure of a quote is a positive number and all four tiers are there
CompleteQuote(q) ==
    /\ ~q.isNull
    /\ \A r \in {q.premium_range_annual, q.premium_range_monthly} :
          Positive(r.min) /\ Positive(r.max) /\ r.min.v <= r.max.v
    /\ Len(q.excess_options) = Len(pricingRules.excess_options)
    /\ \A i \in DOMAIN q.excess_options :
          /\ Positive(q.excess_options[i].annual_premium)
          /\ Positive(q.excess_options[i].monthly_premium)
    /\ q.vehicle.estimated_value > 0
    /\ q.risk_zone \in DOMAIN pricingRules.postcode_risk_multipliers

\* C25: the quote calculateQuote returned is complete; its category and base
\* value are those of the table entry that the make names letter case aside
\* and the model names letter case, hyphens and spaces aside, and for a pair
\* the table does not hold they are midrange and 35000.
C25_LookupOrMidrangeDefault ==
    (tool.at \in {"scrape", "respond"} /\ tool.scraped_calls = 0) =>
        LET in == quoteInput(tool.args)
            entries == TableEntries(in.vehicle_make, in.vehicle_model)
            q == tool.quote
        IN  /\ CompleteQuote(q)
            /\ \A e \in entries :
                  /\ q.vehicle.category = e.category
                  /\ q.vehicle.estimated_value =
                        depreciate(e.base_value, in.vehicle_year, tool.currentYear)
            /\ entries = {} =>
                  /\ q.vehicle.category = "midrange"
                  /\ q.vehicle.estimated_value =
                        depreciate(35000, in.vehicle_year, tool.currentYear)

\* a quote was calculated for a make the table does not hold ("Rivian") and
\* a vehicle of the current year: midrange, valued at the default 35000
C25_Witness ==
    /\ tool.at \in {"scrape", "respond"}
    /\ tool.scraped_calls = 0
    /\ tool.args.vehicle_make.v = <<"R", "i", "v", "i", "a", "n">>
    /\ tool.quote.vehicle.category = "midrange"
    /\ tool.quote.vehicle.estimated_value = 35000

\* a 4-digit string starting with 3
ValidPostcode(x) ==
    /\ x.k = "string"
    /\ Len(x.v) = 4
    /\ \A i \in 1..4 : x.v[i] \in DigitChars
    /\ x.v[1] = "3"

\* a whole number from 17 to 99
ValidAge(x) == x.k = "number" /\ x.v \in 17..99

\* C26: a call whose postcode is not a 4-digit string starting with 3, or
\* whose driver_age is outside 17..99, never has the calculator or the
\* scraper invoked for it, and its answer is an error.
C26_InvalidCallRejected ==
    (tool.at # "idle"
        /\ (~ValidPostcode(tool.args.postcode) \/ ~ValidAge(tool.args.driver_age)))
    => /\ tool.calculated = 0
       /\ tool.scraped_calls = 0
       /\ tool.at \in {"received", "responded"}
       /\ tool.at = "responded" => tool.response.isError

\* a call with the Sydney postcode 2000 and a valid age was answered with an
\* error
C26_Witness ==
    /\ tool.at = "responded"
    /\ tool.args.postcode = Str(<<"2", "0", "0", "0">>)
    /\ ValidAge(tool.args.driver_age)
    /\ tool.args.vehicle_year = Num(2024)
    /\ tool.response.isError
    /\ tool.calculated = 0

-----------------------------------------------------------------------------
(* Properties of the HTTP server (specification SpecServer) *)

\* C27: a session that a completed DELETE has ended is not in the registry,
\* and every POST, GET or DELETE that arrives afterwards with its id is
\* answered with status 400.
C27_EndedSessionIsRefused ==
    /\ \A sid \in http.deleted : sid \notin DOMAIN transports
    /\ \A i \in DOMAIN http.reqs :
          http.reqs[i].late =>
              http.reqs[i].at = "answered" /\ http.reqs[i].status = 400

\* a session was initialized and ended by DELETE, and a POST that came later
\* with its id and an initialize body was answered 400
C27_Witness ==
    \E i \in DOMAIN http.reqs :
        /\ http.reqs[i].late
        /\ http.reqs[i].method = "POST"
        /\ http.reqs[i].body = "initialize"
        /\ http.reqs[i].status = 400

\* C28 as claimed: a POST makes a new transport only when it carries no
\* session id and its body is an initialize request; a POST that carries an
\* id the registry does not hold, or no id and another body, is answered 400
\* with code -32000 and the registry stays as it was.  (An empty header
\* value is counted as no id.)
C28_PostCreatesOnlyOnBareInitialize ==
    [][ (Len(http'.reqs) > Len(http.reqs)
            /\ http'.reqs[Len(http'.reqs)].method = "POST") =>
          LET r == http'.reqs[Len(http'.reqs)]
              carriesId == r.hdr.k \notin {"undefined", "empty"}
              held == r.hdr.k = "sid" /\ r.hdr.v \in DOMAIN transports
          IN  /\ Len(http'.insts) > Len(http.insts) =>
                    ~carriesId /\ r.body = "initialize"
              /\ ((carriesId /\ ~held) \/ (~carriesId /\ r.body # "initialize")) =>
                    /\ r.at = "answered"
                    /\ r.status = 400
                    /\ r.code = -32000
                    /\ transports' = transports
                    /\ http'.insts = http.insts
      ]_vars

\* C29: every key of the registry is the session id of the transport it maps
\* to; an entry appears only in the step that initializes that transport's
\* session and goes only in a step that closes that transport (its own close
\* or the shutdown loop); a request that carries a session id is only ever
\* handed to the transport of that session.
C29_RegistryKeysAreSessionIds ==
    [][ /\ \A sid \in DOMAIN transports' :
              http'.insts[transports'[sid]].sessionId = sid
        /\ \A sid \in DOMAIN transports' \ DOMAIN transports :
              /\ http.insts[transports'[sid]].sessionId = 0
              /\ ~http'.insts[transports'[sid]].closed
        /\ \A sid \in DOMAIN transports \ DOMAIN transports' :
              http'.insts[transports[sid]].closed
        /\ \A i \in DOMAIN http'.reqs :
              (http'.reqs[i].target # 0 /\ HdrTruthy(http'.reqs[i].hdr)) =>
                  http'.reqs[i].hdr =
                      SidHdr(http'.insts[http'.reqs[i].target].sessionId)
      ]_vars

\* two sessions are registered and a request carrying the id of the second
\* was handed to its transport and answered
C29_Witness ==
    /\ DOMAIN transports = {1, 2}
    /\ \E i \in DOMAIN http.reqs :
          /\ http.reqs[i].hdr = SidHdr(2)
          /\ http.reqs[i].target = transports[2]
          /\ http.reqs[i].status = 200

=============================================================================
